---- MODULE Spec2Model ----
(***************************************************************************)
(* Model of the Linear <-> OpenCode plugin: the reference detector, the    *)
(* TUI event stream manager, the webhook transport and the CRUD client.    *)
(* Each component has its own specification over the shared variables.     *)
(***************************************************************************)
EXTENDS Integers, Sequences, FiniteSets, TLC

VARIABLES
    \* ---- OpenCodeReferenceDetector ----
    comment,        \* the comment text under scan, a sequence of characters
    nChunks,        \* how many pieces the text was assembled from
    lastIndex,      \* OPENCODE_PATTERN.lastIndex (state of the shared regex)
    references,     \* result of the last detectReferences(comment)
    hasReference,   \* result of the last hasOpenCodeReference(comment)
    action,         \* result of the last extractAction(references[1])
    computed,       \* which of these results were computed for this comment
    priorIndex,     \* the lastIndex a previous call had left when the last call began
    \* ---- TUIEventStreamManager ----
    isActive,       \* private isActive
    filters,        \* private filters: Set<string>
    eventHistory,   \* private eventHistory: LinearStreamEvent[]
    now,            \* the last value read from the clock (Date.now())
    lifecycle,      \* which of start()/stop() was called last, "constructed" before
    lastOp,         \* the method of the manager that was called last
    streamResult,   \* what it returned if it was streamEvent: <<event>>, or <<>> for null
    emitted,        \* the channels it emitted on, in order
    formatted,      \* the event formatEventForTUI built in it: <<event>>, or <<>>
    caught,         \* TRUE when the catch block of streamEvent ran in it
    nCalls,         \* streamEvent calls made so far
    \* ---- webhook transport (Netlify function) ----
    webhookSecret,  \* config.webhookSecret
    httpRequest,    \* the HandlerEvent of the last invocation
    httpResponse,   \* the HandlerResponse it was answered with
    httpSteps,      \* what the invocation did with the body, in order
    \* ---- CRUD client and the tracker behind it ----
    enableSafetyChecks, \* LinearCRUD.options.enableSafetyChecks
    client,         \* LinearCRUD.client is cached
    currentUser,    \* LinearCRUD.currentUser: Null or the cached user's id
    viewer,         \* the tracker's user for the configured credential
    issues,         \* tracker: issue id -> issue
    comments,       \* tracker: comment id -> comment
    relations,      \* tracker: relation id -> relation
    projects,       \* tracker: project id -> project
    milestones,     \* tracker: milestone id -> milestone
    lastCall,       \* the last CRUD call and how it ended
    nOps,           \* CRUD calls made so far
    \* ---- authentication module and the plugin's tools ----
    linearClient,   \* linear-auth's module variable: TRUE when a client was built
    authCall,       \* the last getLinearClient / testLinearAuth call and how it ended
    toolCall,       \* the last tool execute and how it ended
    \* ---- operations running concurrently on one LinearCRUD instance ----
    pc,             \* where each running operation stands
    clientFetches,  \* calls of getLinearClient() made so far
    userFetches,    \* reads of client.viewer made by getCurrentUser so far
    fetchFailed,    \* TRUE once a getLinearClient() call answered null
    \* ---- webhook event processor behind linear_webhook_process ----
    delivery,       \* args.payload of the running or last execute
    procState,      \* the state of the processor's state machine
    procResult,     \* how processEvent ended: a ProcessingResult, or a throw
    procReturn      \* what execute returned

detVars == <<comment, nChunks, lastIndex, references, hasReference, action,
             computed, priorIndex>>

streamVars == <<isActive, filters, eventHistory, now, lifecycle, lastOp,
                streamResult, emitted, formatted, caught, nCalls>>

httpVars == <<webhookSecret, httpRequest, httpResponse, httpSteps>>

trackerVars == <<issues, comments, relations, projects, milestones>>

crudVars == <<enableSafetyChecks, client, currentUser, viewer, trackerVars,
              lastCall, nOps>>

pluginVars == <<linearClient, authCall, toolCall>>

asyncVars == <<pc, clientFetches, userFetches, fetchFailed>>

procVars == <<delivery, procState, procResult, procReturn>>

vars == <<detVars, streamVars, httpVars, crudVars, pluginVars, asyncVars,
          procVars>>

\* what a step of one component leaves alone
detOthers    == <<streamVars, httpVars, crudVars, pluginVars, asyncVars, procVars>>
streamOthers == <<detVars, httpVars, crudVars, pluginVars, asyncVars, procVars>>
httpOthers   == <<detVars, streamVars, crudVars, pluginVars, asyncVars, procVars>>
crudOthers   == <<detVars, streamVars, httpVars, pluginVars, asyncVars, procVars>>
pluginOthers == <<detVars, streamVars, httpVars, crudVars, asyncVars, procVars>>
asyncOthers  == <<detVars, streamVars, httpVars, pluginVars, enableSafetyChecks,
                  viewer, trackerVars, lastCall, nOps, procVars>>
procOthers   == <<detVars, streamVars, httpVars, crudVars, pluginVars, asyncVars>>

Undef == "undefined"
Null  == "null"

Max(S) == CHOOSE x \in S : \A y \in S : y <= x
Min(S) == CHOOSE x \in S : \A y \in S : x <= y

(***************************************************************************)
(* Reference detector                                                      *)
(***************************************************************************)

\* Bound: a text is assembled from at most MaxChunks pieces.
MaxChunks == 4

MarkerLower == <<"@", "o", "p", "e", "n", "c", "o", "d", "e">>
MarkerMixed == <<"@", "O", "p", "e", "n", "C", "o", "d", "e">>

\* The pieces texts are assembled from: the marker in two spellings, a lone
\* "@", a word character, a non-word character and white space.
Chunks == {MarkerLower, MarkerMixed, <<"@">>, <<"T">>, <<"-">>, <<" ">>}

UpperAlphabet ==
    <<"A", "B", "C", "D", "E", "F", "G", "H", "I", "J", "K", "L",
      "M", "N", "O", "P", "Q", "R", "S", "T", "U", "V", "W", "X", "Y", "Z">>
LowerAlphabet ==
    <<"a", "b", "c", "d", "e", "f", "g", "h", "i", "j", "k", "l",
      "m", "n", "o", "p", "q", "r", "s", "t", "u", "v", "w", "x", "y", "z">>
Digits == {"0", "1", "2", "3", "4", "5", "6", "7", "8", "9"}

Range(f) == {f[x] : x \in DOMAIN f}

\* String.prototype.toLowerCase on one character
toLowerChar(c) ==
    IF c \in Range(UpperAlphabet)
    THEN LowerAlphabet[CHOOSE k \in 1..Len(UpperAlphabet) : UpperAlphabet[k] = c]
    ELSE c

toLowerCase(s) == [k \in 1..Len(s) |-> toLowerChar(s[k])]

\* \w of the regex engine: [A-Za-z0-9_]
isWordChar(c) ==
    c \in Range(UpperAlphabet) \cup Range(LowerAlphabet) \cup Digits \cup {"_"}

\* \s of the regex engine / String.prototype.trim
isSpace(c) == c = " "

\* "@opencode" under the i flag at 1-based position i of s
MarkerAt(s, i) ==
    /\ i >= 1
    /\ i + Len(MarkerLower) - 1 <= Len(s)
    /\ \A k \in 1..Len(MarkerLower) : toLowerChar(s[i + k - 1]) = MarkerLower[k]

\* \b after the marker that starts at i (the marker ends in a word character)
BoundaryAfterMarker(s, i) ==
    LET p == i + Len(MarkerLower) IN p > Len(s) \/ ~isWordChar(s[p])

\* [^@]* taken greedily from position p: the position it stops at
GreedyEnd(s, p) ==
    Min({q \in p..(Len(s) + 1) : q = Len(s) + 1 \/ s[q] = "@"})

\* (?=@opencode|$) at position q
Lookahead(s, q) == q = Len(s) + 1 \/ MarkerAt(s, q)

\* One match attempt of OPENCODE_PATTERN anchored at i: the position just
\* after the match, or 0 when the attempt fails.  The engine tries the
\* longest [^@]* first and backtracks to shorter ones.
MatchEndAt(s, i) ==
    IF ~(MarkerAt(s, i) /\ BoundaryAfterMarker(s, i)) THEN 0
    ELSE LET p     == i + Len(MarkerLower)
             cands == {q \in p..GreedyEnd(s, p) : Lookahead(s, q)}
         IN  IF cands = {} THEN 0 ELSE Max(cands)

\* RegExp.prototype.exec of the global pattern from lastIndex li (0-based):
\* the match and the new lastIndex; no match resets lastIndex to 0.
RegexExec(s, li) ==
    LET starts == {i \in (li + 1)..Len(s) : MatchEndAt(s, i) # 0}
    IN  IF li > Len(s) \/ starts = {}
        THEN [found |-> FALSE, index |-> 0, end |-> 0, lastIndex |-> 0]
        ELSE LET i == Min(starts)
                 e == MatchEndAt(s, i)
             IN  [found |-> TRUE, index |-> i - 1, end |-> e - 1,
                  lastIndex |-> e - 1]

RECURSIVE TrimLeft(_)
TrimLeft(s) ==
    IF s # <<>> /\ isSpace(Head(s)) THEN TrimLeft(Tail(s)) ELSE s

RECURSIVE TrimRight(_)
TrimRight(s) ==
    IF s # <<>> /\ isSpace(s[Len(s)])
    THEN TrimRight(SubSeq(s, 1, Len(s) - 1)) ELSE s

\* String.prototype.trim
Trim(s) == TrimRight(TrimLeft(s))

\* The while loop of detectReferences: exec until it returns null
RECURSIVE ExecLoop(_, _, _)
ExecLoop(s, li, refs) ==
    LET m == RegexExec(s, li)
    IN  IF ~m.found THEN [refs |-> refs, lastIndex |-> m.lastIndex]
        ELSE ExecLoop(s, m.lastIndex,
                 Append(refs, [raw      |-> SubSeq(s, m.index + 1, m.end),
                               position |-> [start |-> m.index, end |-> m.end],
                               context  |-> Trim(s)]))

\* a detectReferences that forgets to reset lastIndex
detectReferencesNoReset(s, li) == ExecLoop(s, li, <<>>)

\* detectReferences started with the pattern's lastIndex at li
detectReferences(s, li) == ExecLoop(s, 0, <<>>)

\* a hasOpenCodeReference that forgets to reset lastIndex
hasOpenCodeReferenceNoReset(s, li) ==
    LET m == RegexExec(s, li) IN [result |-> m.found, lastIndex |-> m.lastIndex]

\* hasOpenCodeReference started with the pattern's lastIndex at li
hasOpenCodeReference(s, li) ==
    LET m == RegexExec(s, 0) IN [result |-> m.found, lastIndex |-> m.lastIndex]

\* raw.replace(/@opencode/i, ''): the first marker occurrence removed
ReplaceMarker(s) ==
    LET occ == {i \in 1..Len(s) : MarkerAt(s, i)}
    IN  IF occ = {} THEN s
        ELSE LET i == Min(occ)
             IN  SubSeq(s, 1, i - 1) \o SubSeq(s, i + Len(MarkerLower), Len(s))

\* /^(\w+)/ : the longest prefix of word characters
WordPrefix(s) ==
    LET n == Max({k \in 0..Len(s) : \A j \in 1..k : isWordChar(s[j])})
    IN  SubSeq(s, 1, n)

Help == <<"h", "e", "l", "p">>

\* an extractAction without the default
extractActionNoDefault(reference) ==
    toLowerCase(WordPrefix(Trim(ReplaceMarker(reference.raw))))

extractAction(reference) ==
    LET commandText == Trim(ReplaceMarker(reference.raw))
        match       == WordPrefix(commandText)
    IN  IF match # <<>> THEN toLowerCase(match) ELSE Help

DetInit ==
    /\ comment = <<>>
    /\ nChunks = 0
    /\ lastIndex = 0
    /\ references = <<>>
    /\ hasReference = FALSE
    /\ action = <<>>
    /\ computed = {}
    /\ priorIndex = 0

\* the caller extends the text it is about to scan
AppendChunk(c) ==
    /\ UNCHANGED detOthers
    /\ nChunks < MaxChunks
    /\ comment' = comment \o c
    /\ nChunks' = nChunks + 1
    /\ references' = <<>>
    /\ hasReference' = FALSE
    /\ action' = <<>>
    /\ computed' = {}
    /\ priorIndex' = 0
    /\ UNCHANGED lastIndex

\* the caller turns to another text
NewComment ==
    /\ UNCHANGED detOthers
    /\ comment # <<>>
    /\ comment' = <<>>
    /\ nChunks' = 0
    /\ references' = <<>>
    /\ hasReference' = FALSE
    /\ action' = <<>>
    /\ computed' = {}
    /\ priorIndex' = 0
    /\ UNCHANGED lastIndex

DetectReferences ==
    /\ UNCHANGED detOthers
    /\ LET r == detectReferences(comment, lastIndex)
       IN  /\ references' = r.refs
           /\ lastIndex' = r.lastIndex
    /\ computed' = computed \cup {"detectReferences"}
    /\ priorIndex' = lastIndex
    /\ UNCHANGED <<comment, nChunks, hasReference, action>>

HasOpenCodeReference ==
    /\ UNCHANGED detOthers
    /\ LET r == hasOpenCodeReference(comment, lastIndex)
       IN  /\ hasReference' = r.result
           /\ lastIndex' = r.lastIndex
    /\ computed' = computed \cup {"hasOpenCodeReference"}
    /\ priorIndex' = lastIndex
    /\ UNCHANGED <<comment, nChunks, references, action>>

ExtractAction ==
    /\ UNCHANGED detOthers
    /\ "detectReferences" \in computed
    /\ references # <<>>
    /\ action' = extractAction(references[1])
    /\ computed' = computed \cup {"extractAction"}
    /\ UNCHANGED <<comment, nChunks, lastIndex, references, hasReference, priorIndex>>

DetNext ==
    \/ \E c \in Chunks : AppendChunk(c)
    \/ NewComment
    \/ DetectReferences
    \/ HasOpenCodeReference
    \/ ExtractAction

(***************************************************************************)
(* TUI event stream manager                                                *)
(***************************************************************************)

maxHistorySize == 1000

\* Bound: streamEvent calls per behaviour.
MaxStreamCalls == 2

\* The characters of the strings the manager compares
Chars(s) ==
    CASE s = "comment_created" -> <<"c", "o", "m", "m", "e", "n", "t", "_", "c", "r", "e", "a", "t", "e", "d">>
      [] s = "comment_updated" -> <<"c", "o", "m", "m", "e", "n", "t", "_", "u", "p", "d", "a", "t", "e", "d">>
      [] s = "issue_created" -> <<"i", "s", "s", "u", "e", "_", "c", "r", "e", "a", "t", "e", "d">>
      [] s = "issue_updated" -> <<"i", "s", "s", "u", "e", "_", "u", "p", "d", "a", "t", "e", "d">>
      [] s = "opencode_command" -> <<"o", "p", "e", "n", "c", "o", "d", "e", "_", "c", "o", "m", "m", "a", "n", "d">>
      [] s = "opencode_response" -> <<"o", "p", "e", "n", "c", "o", "d", "e", "_", "r", "e", "s", "p", "o", "n", "s", "e">>
      [] s = "comment" -> <<"c", "o", "m", "m", "e", "n", "t">>
      [] s = "created" -> <<"c", "r", "e", "a", "t", "e", "d">>
      [] s = "updated" -> <<"u", "p", "d", "a", "t", "e", "d">>
      [] s = "issue" -> <<"i", "s", "s", "u", "e">>
      [] s = "opencode" -> <<"o", "p", "e", "n", "c", "o", "d", "e">>
      [] s = "command" -> <<"c", "o", "m", "m", "a", "n", "d">>
      [] s = "response" -> <<"r", "e", "s", "p", "o", "n", "s", "e">>
      [] s = "info" -> <<"i", "n", "f", "o">>
      [] s = "success" -> <<"s", "u", "c", "c", "e", "s", "s">>
      [] s = "warning" -> <<"w", "a", "r", "n", "i", "n", "g">>
      [] s = "error" -> <<"e", "r", "r", "o", "r">>
      [] s = "Ann" -> <<"A", "n", "n">>
      [] s = "Unknown" -> <<"U", "n", "k", "n", "o", "w", "n">>
      [] s = "ENG-1" -> <<"E", "N", "G", "-", "1">>
      [] s = "UNKNOWN" -> <<"U", "N", "K", "N", "O", "W", "N">>
      [] s = "CREATED" -> <<"C", "R", "E", "A", "T", "E", "D">>
      [] s = "warn" -> <<"w", "a", "r", "n">>
      [] s = "ann" -> <<"a", "n", "n">>
      [] s = "eng" -> <<"e", "n", "g">>
      [] s = "zz" -> <<"z", "z">>

\* a.toLowerCase().includes(b) for strings a and an already lower-cased b
includes(a, b) ==
    \E i \in 0..(Len(a) - Len(b)) : SubSeq(a, i + 1, i + Len(b)) = b

\* the raw webhook data streamEvent is called with; NullData stands for a value
\* formatEventForTUI cannot read a property of (null, undefined)
NullData == [nullish |-> TRUE]
RawEvents ==
    { NullData,
      [nullish |-> FALSE, actor |-> "Ann", dataId |-> "e1", identifier |-> "ENG-1",
       success |-> TRUE],
      [nullish |-> FALSE, actor |-> Undef, dataId |-> Undef, identifier |-> Undef,
       success |-> FALSE] }

\* the event types streamEvent is called with
EventTypes == {"comment_created", "opencode_response"}

\* the filter lists setFilters is called with
FilterChoices == { {}, {"CREATED"}, {"zz", "ann"}, {"warn", "eng"}, {"zz"} }

\* by how much the clock has advanced between two reads
Ticks == {1}

\* the same with calls that fall into the millisecond of the call before
ClockTicks == {0, 1}

\* what the listeners on the event channels do when called
ListenerOutcomes == {"return", "streamedThrows", "typedThrows"}

TypeChannel(eventType) == <<"event", eventType>>

generateEventId(eventData, eventType, t) ==
    LET baseId == IF eventData.dataId # Undef THEN eventData.dataId ELSE "unknown"
    IN  <<eventType, baseId, t>>

\* the tags pushed by the switch of formatEventForTUI
TypeTags(eventType) ==
    CASE eventType = "comment_created"   -> <<"comment", "created">>
      [] eventType = "comment_updated"   -> <<"comment", "updated">>
      [] eventType = "issue_created"     -> <<"issue", "created">>
      [] eventType = "issue_updated"     -> <<"issue", "updated">>
      [] eventType = "opencode_command"  -> <<"opencode", "command">>
      [] eventType = "opencode_response" -> <<"opencode", "response">>

formatEventForTUI(eventData, eventType, t) ==
    [ id         |-> generateEventId(eventData, eventType, t),
      type       |-> eventType,
      actor      |-> IF eventData.actor # Undef THEN eventData.actor ELSE "Unknown",
      identifier |-> IF eventData.identifier # Undef
                     THEN eventData.identifier ELSE "UNKNOWN",
      severity   |-> IF eventType = "opencode_response"
                     THEN (IF eventData.success THEN "success" ELSE "warning")
                     ELSE "info",
      tags       |-> <<eventType>> \o TypeTags(eventType) ]

\* a history that drops the newest event on overflow
addToHistoryDropNewest(history, event) ==
    IF Len(history) + 1 > maxHistorySize THEN history ELSE Append(history, event)

addToHistory(history, event) ==
    LET pushed == Append(history, event)
    IN  IF Len(pushed) > maxHistorySize THEN Tail(pushed) ELSE pushed

matchesFilter(event, filter) ==
    LET lowerFilter == toLowerCase(Chars(filter))
    IN  \/ includes(toLowerCase(Chars(event.type)), lowerFilter)
        \/ includes(toLowerCase(Chars(event.severity)), lowerFilter)
        \/ \E k \in 1..Len(event.tags) :
               includes(toLowerCase(Chars(event.tags[k])), lowerFilter)
        \/ includes(toLowerCase(Chars(event.actor)), lowerFilter)
        \/ includes(toLowerCase(Chars(event.identifier)), lowerFilter)

\* TRUE when the event is to be filtered out
shouldFilterEvent(fs, event) ==
    IF fs = {} THEN FALSE
    ELSE ~(\E f \in fs : matchesFilter(event, f))

\* a streamEvent that does not look at isActive
streamEventAlways(active, fs, history, eventData, eventType, t, listeners) ==
    IF eventData.nullish
    THEN [result |-> <<>>, history |-> history, emitted |-> <<>>,
          formatted |-> <<>>, caught |-> TRUE]
    ELSE LET event == formatEventForTUI(eventData, eventType, t)
         IN  [result |-> <<event>>, history |-> addToHistory(history, event),
              emitted |-> <<"event:streamed", TypeChannel(eventType)>>,
              formatted |-> <<event>>, caught |-> FALSE]

\* what a caller would receive in place of a result if streamEvent let an
\* exception through
Propagated == [exception |-> "TypeError"]

\* a streamEvent without its try/catch
streamEventNoCatch(active, fs, history, eventData, eventType, t, listeners) ==
    IF ~active
    THEN [result |-> <<>>, history |-> history, emitted |-> <<>>,
          formatted |-> <<>>, caught |-> FALSE]
    ELSE IF eventData.nullish
    THEN [result |-> <<Propagated>>, history |-> history, emitted |-> <<>>,
          formatted |-> <<>>, caught |-> FALSE]
    ELSE LET event == formatEventForTUI(eventData, eventType, t)
         IN  IF shouldFilterEvent(fs, event)
             THEN [result |-> <<>>, history |-> history, emitted |-> <<>>,
                   formatted |-> <<event>>, caught |-> FALSE]
             ELSE [result |-> IF listeners = "return" THEN <<event>> ELSE <<Propagated>>,
                   history |-> addToHistory(history, event),
                   emitted |-> IF listeners = "streamedThrows"
                               THEN <<"event:streamed">>
                               ELSE <<"event:streamed", TypeChannel(eventType)>>,
                   formatted |-> <<event>>, caught |-> FALSE]

\* streamEvent: what it returns, the history it leaves and the channels it
\* emitted on.  An exception of formatEventForTUI or of a listener is caught.
streamEvent(active, fs, history, eventData, eventType, t, listeners) ==
    IF ~active
    THEN [result |-> <<>>, history |-> history, emitted |-> <<>>,
          formatted |-> <<>>, caught |-> FALSE]
    ELSE IF eventData.nullish
    THEN [result |-> <<>>, history |-> history, emitted |-> <<>>,
          formatted |-> <<>>, caught |-> TRUE]
    ELSE LET event == formatEventForTUI(eventData, eventType, t)
         IN  IF shouldFilterEvent(fs, event)
             THEN [result |-> <<>>, history |-> history, emitted |-> <<>>,
                   formatted |-> <<event>>, caught |-> FALSE]
             ELSE LET added == addToHistory(history, event)
                  IN  CASE listeners = "streamedThrows" ->
                             [result |-> <<>>, history |-> added,
                              emitted |-> <<"event:streamed">>,
                              formatted |-> <<event>>, caught |-> TRUE]
                        [] listeners = "typedThrows" ->
                             [result |-> <<>>, history |-> added,
                              emitted |-> <<"event:streamed", TypeChannel(eventType)>>,
                              formatted |-> <<event>>, caught |-> TRUE]
                        [] OTHER ->
                             [result |-> <<event>>, history |-> added,
                              emitted |-> <<"event:streamed", TypeChannel(eventType)>>,
                              formatted |-> <<event>>, caught |-> FALSE]

\* the raw data of the events of WarmHistory
WarmRaw ==
    [nullish |-> FALSE, actor |-> "Ann", dataId |-> "e1", identifier |-> "ENG-1",
     success |-> TRUE]

\* the history after maxHistorySize - 1 accepted comment_created events, one
\* per clock tick
WarmHistory ==
    [k \in 1..(maxHistorySize - 1) |-> formatEventForTUI(WarmRaw, "comment_created", k)]

\* the manager as constructed
StreamConstructed ==
    /\ isActive = FALSE
    /\ filters = {}
    /\ eventHistory = <<>>
    /\ now = 0
    /\ lifecycle = "constructed"
    /\ lastOp = "constructor"
    /\ streamResult = <<>>
    /\ emitted = <<>>
    /\ formatted = <<>>
    /\ caught = FALSE
    /\ nCalls = 0

\* the manager after start() and maxHistorySize - 1 accepted events
StreamWarm ==
    /\ isActive = TRUE
    /\ filters = {}
    /\ eventHistory = WarmHistory
    /\ now = maxHistorySize - 1
    /\ lifecycle = "started"
    /\ lastOp = "streamEvent"
    /\ streamResult = <<WarmHistory[maxHistorySize - 1]>>
    /\ emitted = <<"event:streamed", TypeChannel("comment_created")>>
    /\ formatted = <<WarmHistory[maxHistorySize - 1]>>
    /\ caught = FALSE
    /\ nCalls = 0

StreamInit == StreamConstructed \/ StreamWarm

start ==
    /\ UNCHANGED streamOthers
    /\ isActive' = TRUE
    /\ lifecycle' = "started"
    /\ emitted' = IF isActive THEN <<>> ELSE <<"stream:started">>
    /\ lastOp' = "start"
    /\ streamResult' = <<>>
    /\ formatted' = <<>>
    /\ caught' = FALSE
    /\ UNCHANGED <<filters, eventHistory, now, nCalls>>

stop ==
    /\ UNCHANGED streamOthers
    /\ isActive' = FALSE
    /\ lifecycle' = "stopped"
    /\ emitted' = IF isActive THEN <<"stream:stopped">> ELSE <<>>
    /\ lastOp' = "stop"
    /\ streamResult' = <<>>
    /\ formatted' = <<>>
    /\ caught' = FALSE
    /\ UNCHANGED <<filters, eventHistory, now, nCalls>>

\* one streamEvent call; the clock has advanced by tick since it was last read
StreamEvent(eventData, eventType, tick, listeners) ==
    /\ UNCHANGED streamOthers
    /\ nCalls < MaxStreamCalls
    /\ nCalls' = nCalls + 1
    /\ lastOp' = "streamEvent"
    /\ LET t == now + tick
           r == streamEvent(isActive, filters, eventHistory, eventData, eventType,
                            t, listeners)
       IN  /\ streamResult' = r.result
           /\ eventHistory' = r.history
           /\ emitted' = r.emitted
           /\ formatted' = r.formatted
           /\ caught' = r.caught
           /\ now' = IF isActive /\ ~eventData.nullish THEN t ELSE now
    /\ UNCHANGED <<isActive, filters, lifecycle>>

setFilters(fs) ==
    /\ UNCHANGED streamOthers
    /\ filters' = fs
    /\ emitted' = <<>>
    /\ lastOp' = "setFilters"
    /\ streamResult' = <<>>
    /\ formatted' = <<>>
    /\ caught' = FALSE
    /\ UNCHANGED <<isActive, eventHistory, now, lifecycle, nCalls>>

clearHistory ==
    /\ UNCHANGED streamOthers
    /\ eventHistory' = <<>>
    /\ emitted' = <<>>
    /\ lastOp' = "clearHistory"
    /\ streamResult' = <<>>
    /\ formatted' = <<>>
    /\ caught' = FALSE
    /\ UNCHANGED <<isActive, filters, now, lifecycle, nCalls>>

StreamNext ==
    \/ start
    \/ stop
    \/ \E eventData \in RawEvents, eventType \in EventTypes, tick \in Ticks,
          listeners \in ListenerOutcomes :
           StreamEvent(eventData, eventType, tick, listeners)
    \/ \E fs \in FilterChoices : setFilters(fs)
    \/ clearHistory

\* the manager fed by a caller whose events may arrive within one millisecond
StreamClockNext ==
    \/ start
    \/ stop
    \/ \E eventData \in RawEvents, eventType \in EventTypes, tick \in ClockTicks,
          listeners \in ListenerOutcomes :
           StreamEvent(eventData, eventType, tick, listeners)
    \/ clearHistory

(***************************************************************************)
(* Webhook transport                                                       *)
(***************************************************************************)

\* event.body: NoBody stands for a null body, "" is the empty string
NoBody == "<null>"
Bodies == {NoBody, "", "{comment}", "{issue}", "not json"}

\* the bodies JSON.parse accepts
ValidJson == {"{comment}", "{issue}"}

Secrets == {"", "s1"}

\* the HMAC-SHA256 hex digest of a body under a secret
Hmac(body, secret) == <<"hmac-sha256", secret, body>>

\* the values a signature header carries; <<>> is the empty string
SignatureValues ==
    {<<>>} \cup {Hmac(b, k) : b \in {"{comment}", "not json"}, k \in {"s1", "s2"}}

SignatureHeader == "linear-signature"

HeaderNames == {"linear-signature", "Linear-Signature", "x-request-id"}

headerNameLower(name) ==
    IF name = "Linear-Signature" THEN "linear-signature" ELSE name

\* headers: a set of <<name, value>> pairs with at most one signature header
HeaderSets == {{}} \cup {{<<n, v>>} : n \in HeaderNames, v \in SignatureValues}

NoSignature == <<"<undefined>">>

extractSignature(headers) ==
    LET found == {h \in headers : headerNameLower(h[1]) = SignatureHeader}
    IN  IF found = {} THEN NoSignature ELSE (CHOOSE h \in found : TRUE)[2]

verifyWebhookSignature(body, signature, secret) ==
    IF secret = "" \/ signature = <<>> \/ signature = NoSignature THEN FALSE
    ELSE signature = Hmac(body, secret)

\* the status and, of the JSON body, its error and message fields ("" when absent)
Response(status, error) == [statusCode |-> status, error |-> error, message |-> ""]

\* the answer of handler's catch block
InternalError ==
    [statusCode |-> 500, error |-> "Internal server error", message |-> "error.message"]

\* a transport that parses and processes the body before it checks the signature
handleWebhookRequestParseFirst(event, secret, handlerThrows) ==
    IF event.body = NoBody \/ event.body = ""
    THEN [response |-> Response(400, "Missing request body"), steps |-> <<>>]
    ELSE IF event.body \notin ValidJson
    THEN [response |-> Response(400, "Invalid webhook payload"),
          steps |-> <<"JSON.parse">>]
    ELSE IF ~verifyWebhookSignature(event.body, extractSignature(event.headers), secret)
    THEN [response |-> Response(401, "Invalid signature"),
          steps |-> <<"JSON.parse", "handleWebhook", "extractSignature",
                      "verifyWebhookSignature">>]
    ELSE [response |-> Response(200, ""),
          steps |-> <<"JSON.parse", "handleWebhook", "extractSignature",
                      "verifyWebhookSignature">>]

\* a handleWebhookRequest without the test of the body
handleWebhookRequestNoBodyCheck(event, secret, handlerThrows) ==
    LET signature == extractSignature(event.headers)
    IN  IF signature = NoSignature \/ signature = <<>>
        THEN [response |-> Response(401, "Missing signature"),
              steps |-> <<"extractSignature">>]
        ELSE IF ~verifyWebhookSignature(event.body, signature, secret)
        THEN [response |-> Response(401, "Invalid signature"),
              steps |-> <<"extractSignature", "verifyWebhookSignature">>]
        ELSE IF event.body \notin ValidJson
        THEN [response |-> Response(400, "Invalid webhook payload"),
              steps |-> <<"extractSignature", "verifyWebhookSignature",
                          "JSON.parse">>]
        ELSE [response |-> Response(IF handlerThrows THEN 400 ELSE 200,
                                    IF handlerThrows THEN "Invalid webhook payload"
                                    ELSE ""),
              steps |-> <<"extractSignature", "verifyWebhookSignature",
                          "JSON.parse", "handleWebhook">>]

handleWebhookRequest(event, secret, handlerThrows) ==
    IF event.body = NoBody \/ event.body = ""
    THEN [response |-> Response(400, "Missing request body"), steps |-> <<>>]
    ELSE LET signature == extractSignature(event.headers)
         IN  IF signature = NoSignature \/ signature = <<>>
             THEN [response |-> Response(401, "Missing signature"),
                   steps |-> <<"extractSignature">>]
             ELSE IF ~verifyWebhookSignature(event.body, signature, secret)
             THEN [response |-> Response(401, "Invalid signature"),
                   steps |-> <<"extractSignature", "verifyWebhookSignature">>]
             ELSE IF event.body \notin ValidJson
             THEN [response |-> Response(400, "Invalid webhook payload"),
                   steps |-> <<"extractSignature", "verifyWebhookSignature",
                               "JSON.parse">>]
             ELSE IF handlerThrows
             THEN [response |-> Response(400, "Invalid webhook payload"),
                   steps |-> <<"extractSignature", "verifyWebhookSignature",
                               "JSON.parse", "handleWebhook", "handleWebhook throws">>]
             ELSE [response |-> Response(200, ""),
                   steps |-> <<"extractSignature", "verifyWebhookSignature",
                               "JSON.parse", "handleWebhook">>]

\* what handleHealthCheck() can do
HealthOutcomes == {"ok", "failing", "throws"}

\* <<>> when the health check throws out of handleGetRequest
handleGetRequest(event, health) ==
    IF event.path = "health"
    THEN CASE health = "ok"      -> <<[response |-> Response(200, ""), steps |-> <<>>]>>
           [] health = "failing" -> <<[response |-> Response(500, ""), steps |-> <<>>]>>
           [] OTHER              -> <<>>
    ELSE <<[response |-> Response(200, ""), steps |-> <<>>]>>

\* the Netlify function
handler(event, secret, handlerThrows, health) ==
    CASE event.httpMethod = "POST" -> handleWebhookRequest(event, secret, handlerThrows)
      [] event.httpMethod = "GET"  ->
            LET r == handleGetRequest(event, health)
            IN  IF r = <<>> THEN [response |-> InternalError, steps |-> <<>>]
                ELSE r[1]
      [] OTHER -> [response |-> Response(405, "Method not allowed"), steps |-> <<>>]

HandlerEvents ==
    [httpMethod : {"POST"}, path : {""}, body : Bodies, headers : HeaderSets]
      \cup [httpMethod : {"GET"}, path : {"health", "info", ""}, body : {NoBody},
            headers : {{}}]
      \cup [httpMethod : {"PUT"}, path : {""}, body : {NoBody, "{comment}"},
            headers : {{}}]

NoEvent == [httpMethod |-> "", path |-> "", body |-> NoBody, headers |-> {}]

HttpIdle ==
    /\ httpRequest = NoEvent
    /\ httpResponse = Response(0, "")
    /\ httpSteps = <<>>

HttpInit ==
    /\ webhookSecret \in Secrets
    /\ HttpIdle

\* one invocation of the function
Handler(event, handlerThrows, health) ==
    /\ UNCHANGED httpOthers
    /\ LET r == handler(event, webhookSecret, handlerThrows, health)
       IN  /\ httpRequest' = event
           /\ httpResponse' = r.response
           /\ httpSteps' = r.steps
    /\ UNCHANGED webhookSecret

HttpNext ==
    \E event \in HandlerEvents, handlerThrows \in BOOLEAN, health \in HealthOutcomes :
        Handler(event, handlerThrows, health)

(***************************************************************************)
(* CRUD client                                                             *)
(***************************************************************************)

MaxOps == 2

Users          == {"u1", "u2"}
WorkflowStates == {"s1", "s2"}

\* ids the operations are called with; the ones ending in 9 are unknown to
\* the tracker, the ones ending in 0 are entities without a recorded owner
IssueIds     == {"i0", "i1", "i9"}
CommentIds   == {"c0", "c1", "c9"}
RelationIds  == {"r0", "r1", "r9"}
ProjectIds   == {"p0", "p1", "p9"}
MilestoneIds == {"m0", "m1", "m9"}

\* tracker lookups: <<>> when the tracker has no such entity, else <<entity>>
lookup(table, id) ==
    IF id \in DOMAIN table /\ table[id].exists THEN <<table[id]>> ELSE <<>>

clientIssue(id)            == lookup(issues, id)
clientComment(id)          == lookup(comments, id)
clientIssueRelation(id)    == lookup(relations, id)
clientProject(id)          == lookup(projects, id)
clientProjectMilestone(id) == lookup(milestones, id)

\* (await client.user(id))?.id and its like: the id, or undefined
clientUser(id)          == IF id \in Users THEN id ELSE Undef
clientWorkflowState(id) == IF id \in WorkflowStates THEN id ELSE Undef
idOf(found, id)         == IF found = <<>> THEN Undef ELSE id

\* an optional list of ids: NoList when the field is absent, List(ids) when an
\* array (ids, a sequence) was supplied
NoList == <<>>
List(ids) == <<ids>>

\* the labels and, in the order the tracker returns them, the teams of the
\* account; ids ending in 9 are unknown to the tracker
Labels == {"l1", "l2"}
Teams  == <<"t1", "t2">>

\* (await client.issueLabel(id)) and (await client.team(id))?.id
clientIssueLabel(id) == IF id \in Labels THEN <<[id |-> id]>> ELSE <<>>
clientTeam(id)       == IF id \in {Teams[k] : k \in 1..Len(Teams)} THEN id ELSE Undef

\* (await client.teams({ first: n })).nodes
clientTeams(first) == SubSeq(Teams, 1, IF first < Len(Teams) THEN first ELSE Len(Teams))

\* the fields of an update payload this model follows; Undef is an absent field
NoData ==
    [title |-> Undef, assigneeId |-> Undef, stateId |-> Undef,
     parentId |-> Undef, projectId |-> Undef, labelIds |-> NoList]

LabelLists ==
    {NoList, List(<<>>), List(<<"l1">>), List(<<"l9">>), List(<<"l2", "l9", "l1">>)}

LabelPayloads == {[NoData EXCEPT !.labelIds = l] : l \in LabelLists}

IssuePayloads ==
    [title : {Undef}, assigneeId : {Undef, Null, "u2"}, stateId : {Undef, Null, "s2"},
     parentId : {Undef, Null, "i2"}, projectId : {Undef, Null, "p1"},
     labelIds : {NoList}]
      \cup {[NoData EXCEPT !.title = "t1"],
            [NoData EXCEPT !.title = "t1", !.assigneeId = "u9"],
            [NoData EXCEPT !.title = "t1", !.stateId = ""],
            [NoData EXCEPT !.parentId = "i9", !.projectId = Null],
            [NoData EXCEPT !.projectId = "p9", !.assigneeId = "u2"]}

NamePayloads == {NoData, [NoData EXCEPT !.title = "n1"]}

\* how a call ends: returned a value or threw, the mutations it sent to the
\* tracker, whether it fetched the current user, the update it sent
Threw(error, fetched) ==
    [outcome |-> "threw", value |-> Undef, error |-> error, mutations |-> <<>>,
     fetchedUser |-> fetched, updateData |-> NoData]

Returned(value, mutations, fetched, updateData) ==
    [outcome |-> "returned", value |-> value, error |-> "", mutations |-> mutations,
     fetchedUser |-> fetched, updateData |-> updateData]

NotFoundError       == "not found"
OwnershipError      == "You are not the creator/owner"
ClientUnavailable   == "Linear client not available"
ApiKeyError         == "LINEAR_API_KEY environment variable not set"
GraphQLError        == "GraphQL errors"
MilestoneProjectErr == "Project for milestone not found"

\* this.client ??= await getLinearClient(): TRUE when a client is at hand
getClient(acquired) == client \/ acquired

getCurrentUser == IF currentUser # Null THEN currentUser ELSE viewer

\* the ownership check is skipped
skipsCheck(force) == ~enableSafetyChecks \/ force

\* TRUE when checkOwnership returns, FALSE when it throws
checkOwnership(creatorId, force) ==
    \/ skipsCheck(force)
    \/ ~(creatorId = Undef \/ creatorId = "" \/ creatorId # getCurrentUser)

truthy(v) == v \notin {Undef, Null, ""}

\* a relationship field that treats null like an absent field
relationshipFieldNullIgnored(value, resolved) ==
    IF truthy(value) THEN resolved ELSE Undef

\* a relationship field that an unresolvable id clears
relationshipFieldUnresolvedClears(value, resolved) ==
    IF truthy(value) THEN (IF resolved = Undef THEN Null ELSE resolved)
    ELSE IF value = Null THEN Null ELSE Undef

\* data.x ? (await client.resolve(data.x))?.id : data.x === null ? null : undefined
relationshipField(value, resolved) ==
    IF truthy(value) THEN resolved
    ELSE IF value = Null THEN Null ELSE Undef

\* (await Promise.all(ids.map(id => client.issueLabel(id))))
\*     .filter(Boolean).map(label => label.id)
resolveLabels(ids) ==
    LET labels == [k \in 1..Len(ids) |-> clientIssueLabel(ids[k])]
        found  == SelectSeq(labels, LAMBDA l : l # <<>>)
    IN  [k \in 1..Len(found) |-> found[k][1].id]

\* updateData.labelIds of updateIssue
labelIdsUpdate(labelIds) ==
    IF labelIds = NoList THEN NoList
    ELSE IF Len(labelIds[1]) > 0 THEN List(resolveLabels(labelIds[1]))
    ELSE List(<<>>)

\* the tracker applies an update: fields that are undefined are not sent
entityUpdate(entity, updateData) ==
    [f \in DOMAIN entity |->
        IF f \in DOMAIN updateData /\ updateData[f] # Undef
        THEN updateData[f] ELSE entity[f]]

updateIssue(issueId, data, force) ==
    LET issue == clientIssue(issueId)
    IN  IF issue = <<>> THEN Threw(NotFoundError, FALSE)
        ELSE IF ~checkOwnership(issue[1].creatorId, force)
        THEN Threw(OwnershipError, TRUE)
        ELSE Returned("issue", <<"issue.update">>, ~skipsCheck(force),
               [title      |-> data.title,
                assigneeId |-> relationshipField(data.assigneeId,
                                                 clientUser(data.assigneeId)),
                stateId    |-> relationshipField(data.stateId,
                                                 clientWorkflowState(data.stateId)),
                parentId   |-> relationshipField(data.parentId,
                                  idOf(clientIssue(data.parentId), data.parentId)),
                projectId  |-> relationshipField(data.projectId,
                                  idOf(clientProject(data.projectId), data.projectId)),
                labelIds   |-> labelIdsUpdate(data.labelIds)])

\* a delete that throws on a missing issue
deleteIssueThrowsNotFound(issueId, force) ==
    LET issue == clientIssue(issueId)
    IN  IF issue = <<>> THEN Threw(NotFoundError, FALSE)
        ELSE IF ~checkOwnership(issue[1].creatorId, force)
        THEN Threw(OwnershipError, TRUE)
        ELSE Returned("true", <<"issue.delete">>, ~skipsCheck(force), NoData)

deleteIssue(issueId, force) ==
    LET issue == clientIssue(issueId)
    IN  IF issue = <<>> THEN Returned("false", <<>>, FALSE, NoData)
        ELSE IF ~checkOwnership(issue[1].creatorId, force)
        THEN Threw(OwnershipError, TRUE)
        ELSE Returned("true", <<"issue.delete">>, ~skipsCheck(force), NoData)

updateComment(commentId, body, force) ==
    LET theComment == clientComment(commentId)
    IN  IF theComment = <<>> THEN Threw(NotFoundError, FALSE)
        ELSE IF ~checkOwnership(theComment[1].userId, force)
        THEN Threw(OwnershipError, TRUE)
        ELSE Returned("comment", <<"comment.update">>, ~skipsCheck(force),
                      [body |-> body])

deleteComment(commentId, force) ==
    LET theComment == clientComment(commentId)
    IN  IF theComment = <<>> THEN Returned("false", <<>>, FALSE, NoData)
        ELSE IF ~checkOwnership(theComment[1].userId, force)
        THEN Threw(OwnershipError, TRUE)
        ELSE Returned("true", <<"comment.delete">>, ~skipsCheck(force), NoData)

deleteRelation(relationId, force) ==
    LET relation == clientIssueRelation(relationId)
    IN  IF relation = <<>> THEN Returned("false", <<>>, FALSE, NoData)
        ELSE LET issue == clientIssue(relation[1].issueId)
                 creatorId == IF issue = <<>> THEN Undef ELSE issue[1].creatorId
             IN  IF ~checkOwnership(creatorId, force)
                 THEN Threw(OwnershipError, TRUE)
                 ELSE Returned("true", <<"relation.delete">>, ~skipsCheck(force),
                               NoData)

\* an updateProject that sends the name also when the payload has none
updateProjectAlwaysNames(projectId, data, force) ==
    LET project == clientProject(projectId)
    IN  IF project = <<>> THEN Threw(NotFoundError, FALSE)
        ELSE IF ~checkOwnership(project[1].leadId, force)
        THEN Threw(OwnershipError, TRUE)
        ELSE Returned("project", <<"updateProject">>, ~skipsCheck(force),
                      [name |-> IF data.title = Undef THEN "" ELSE data.title,
                       labelIds |-> data.labelIds])

updateProject(projectId, data, force) ==
    LET project == clientProject(projectId)
    IN  IF project = <<>> THEN Threw(NotFoundError, FALSE)
        ELSE IF ~checkOwnership(project[1].leadId, force)
        THEN Threw(OwnershipError, TRUE)
        ELSE Returned("project", <<"updateProject">>, ~skipsCheck(force),
                      [name |-> data.title, labelIds |-> data.labelIds])

deleteProject(projectId, force) ==
    LET project == clientProject(projectId)
    IN  IF project = <<>> THEN Returned("false", <<>>, FALSE, NoData)
        ELSE IF ~checkOwnership(project[1].leadId, force)
        THEN Threw(OwnershipError, TRUE)
        ELSE Returned("true", <<"deleteProject">>, ~skipsCheck(force), NoData)

\* LinearGraphQL.updateProjectMilestone: the raw request; the tracker answers
\* a mutation of a milestone it does not have with errors
graphqlUpdateProjectMilestone(id, input, apiKeySet) ==
    IF ~apiKeySet THEN Threw(ApiKeyError, FALSE)
    ELSE IF clientProjectMilestone(id) = <<>>
    THEN [Threw(GraphQLError, FALSE) EXCEPT !.mutations = <<"projectMilestoneUpdate">>]
    ELSE Returned("true", <<"projectMilestoneUpdate">>, FALSE, [name |-> input.title])

updateProjectMilestone(milestoneId, data, force, apiKeySet) ==
    graphqlUpdateProjectMilestone(milestoneId, data, apiKeySet)

deleteProjectMilestone(milestoneId, force) ==
    LET milestone == clientProjectMilestone(milestoneId)
    IN  IF milestone = <<>> THEN Returned("false", <<>>, FALSE, NoData)
        ELSE LET project == clientProject(milestone[1].projectId)
             IN  IF project = <<>> THEN Threw(MilestoneProjectErr, FALSE)
                 ELSE IF ~checkOwnership(project[1].leadId, force)
                 THEN Threw(OwnershipError, TRUE)
                 ELSE Returned("true", <<"deleteProjectMilestone">>,
                               ~skipsCheck(force), NoData)

\* what createIssue and createProject are called with
IssueCreations ==
    [title : {"t1"}, teamId : {Undef, "t2", "t9"}, assigneeId : {Undef, "u2"},
     stateId : {Undef}, parentId : {Undef}, projectId : {Undef, "p9"},
     labelIds : LabelLists]

TeamLists == {NoList, List(<<>>), List(<<"t2">>), List(<<"t9", "t1">>)}

ProjectCreations ==
    [name : {"n1"}, teamIds : TeamLists, leadId : {Undef, "u1"},
     memberIds : {NoList, List(<<"u2", "u9">>)}, labelIds : LabelLists]

\* a mutation the tracker answered with errors: the client call throws
Rejected(mutations, updateData) ==
    [Threw(GraphQLError, FALSE) EXCEPT !.mutations = mutations,
                                       !.updateData = updateData]

\* teams.nodes[0]?.id
firstTeamId(nodes) == IF nodes = <<>> THEN Undef ELSE nodes[1]

createIssue(data, accepted) ==
    LET issueData ==
            [title      |-> data.title,
             teamId     |-> IF truthy(data.teamId) THEN clientTeam(data.teamId)
                            ELSE firstTeamId(clientTeams(1)),
             assigneeId |-> IF truthy(data.assigneeId) THEN clientUser(data.assigneeId)
                            ELSE Undef,
             stateId    |-> IF truthy(data.stateId)
                            THEN clientWorkflowState(data.stateId) ELSE Undef,
             parentId   |-> IF truthy(data.parentId)
                            THEN idOf(clientIssue(data.parentId), data.parentId)
                            ELSE Undef,
             projectId  |-> IF truthy(data.projectId)
                            THEN idOf(clientProject(data.projectId), data.projectId)
                            ELSE Undef,
             labelIds   |-> IF data.labelIds # NoList /\ Len(data.labelIds[1]) > 0
                            THEN List(resolveLabels(data.labelIds[1]))
                            ELSE NoList]
    IN  IF accepted THEN Returned("issue", <<"createIssue">>, FALSE, issueData)
        ELSE Rejected(<<"createIssue">>, issueData)

createProject(data, accepted) ==
    LET projectData ==
            [name      |-> data.name,
             teamIds   |-> data.teamIds,
             leadId    |-> IF truthy(data.leadId) THEN data.leadId ELSE Undef,
             memberIds |-> data.memberIds,
             labelIds  |-> data.labelIds]
    IN  IF accepted THEN Returned("project", <<"createProject">>, FALSE, projectData)
        ELSE Rejected(<<"createProject">>, projectData)

createRelation(data, force) ==
    LET issue        == clientIssue(data.issueId)
        relatedIssue == clientIssue(data.relatedIssueId)
    IN  IF issue = <<>> THEN Threw(NotFoundError, FALSE)
        ELSE IF relatedIssue = <<>> THEN Threw(NotFoundError, FALSE)
        ELSE IF ~checkOwnership(issue[1].creatorId, force)
        THEN Threw(OwnershipError, TRUE)
        ELSE Returned("relation", <<"createIssueRelation">>, ~skipsCheck(force),
                      [issueId |-> data.issueId,
                       relatedIssueId |-> data.relatedIssueId])

\* a createProjectMilestone that creates first and checks the lead afterwards
createProjectMilestoneThenCheck(data, force) ==
    LET project == clientProject(data.projectId)
    IN  IF project = <<>> THEN Threw(NotFoundError, FALSE)
        ELSE IF ~checkOwnership(project[1].leadId, force)
        THEN [Threw(OwnershipError, TRUE) EXCEPT
                 !.mutations = <<"createProjectMilestone">>]
        ELSE Returned("milestone", <<"createProjectMilestone">>, ~skipsCheck(force),
                      [name |-> data.name, projectId |-> data.projectId])

createProjectMilestone(data, force) ==
    LET project == clientProject(data.projectId)
    IN  IF project = <<>> THEN Threw(NotFoundError, FALSE)
        ELSE IF ~checkOwnership(project[1].leadId, force)
        THEN Threw(OwnershipError, TRUE)
        ELSE Returned("milestone", <<"createProjectMilestone">>, ~skipsCheck(force),
                      [name |-> data.name, projectId |-> data.projectId])

\* the ids the tracker gives to the entities it creates, in order
NewIssueIds     == <<"i3", "i4", "i5", "i6">>
NewProjectIds   == <<"p2", "p3", "p4", "p5">>
NewRelationIds  == <<"r2", "r3", "r4", "r5">>
NewMilestoneIds == <<"m2", "m3", "m4", "m5">>

created(table, pool) == Cardinality(DOMAIN table \cap Range(pool))

\* the tracker stores a created entity under the next id of the pool
Stored(table, pool, entity) ==
    [id \in DOMAIN table \cup {pool[created(table, pool) + 1]} |->
        IF id \in DOMAIN table THEN table[id] ELSE entity]

orNull(v) == IF v = Undef THEN Null ELSE v

NoCall ==
    [op |-> "", id |-> "", data |-> NoData, force |-> FALSE, outcome |-> "",
     value |-> Undef, error |-> "", mutations |-> <<>>, sent |-> NoData]

CrudConstructed ==
    /\ client = FALSE
    /\ currentUser = Null
    /\ issues = [i \in {"i0", "i1", "i2"} |->
                    [exists |-> TRUE, creatorId |-> IF i = "i0" THEN Undef ELSE "u1",
                     title |-> "t0", assigneeId |-> "u1", stateId |-> "s1",
                     parentId |-> Null, projectId |-> "p1"]]
    /\ comments = [c \in {"c0", "c1"} |->
                      [exists |-> TRUE, userId |-> IF c = "c0" THEN Undef ELSE "u1",
                       body |-> "b0"]]
    /\ relations = [r \in {"r0", "r1"} |->
                       [exists |-> TRUE, issueId |-> IF r = "r0" THEN "i0" ELSE "i1"]]
    /\ projects = [p \in {"p0", "p1"} |->
                      [exists |-> TRUE, leadId |-> IF p = "p0" THEN Undef ELSE "u1",
                       name |-> "n0"]]
    /\ milestones = [m \in {"m0", "m1"} |->
                        [exists |-> TRUE, projectId |-> IF m = "m0" THEN "p0" ELSE "p1",
                         name |-> "mn0"]]
    /\ lastCall = NoCall
    /\ nOps = 0

CrudIdle ==
    /\ CrudConstructed
    /\ enableSafetyChecks = TRUE
    /\ viewer = "u1"

CrudInit ==
    /\ CrudConstructed
    /\ enableSafetyChecks \in BOOLEAN
    /\ viewer \in Users

\* what getLinearClient can answer when no client is cached
AcquireOutcomes == IF client THEN {TRUE} ELSE BOOLEAN

\* the bookkeeping every call that goes through getClient shares
Call(op, id, data, force, acquired, r) ==
    /\ nOps < MaxOps
    /\ nOps' = nOps + 1
    /\ lastCall' = [op |-> op, id |-> id, data |-> data, force |-> force,
                    outcome |-> r.outcome, value |-> r.value, error |-> r.error,
                    mutations |-> r.mutations, sent |-> r.updateData]
    /\ client' = getClient(acquired)
    /\ currentUser' = IF r.fetchedUser THEN getCurrentUser ELSE currentUser
    /\ UNCHANGED <<enableSafetyChecks, viewer>>

Sent(r) == r.mutations # <<>> /\ r.outcome = "returned"

Removed(table, id) == [table EXCEPT ![id].exists = FALSE]

UpdateIssue(issueId, data, force, acquired) ==
    /\ UNCHANGED crudOthers
    /\ LET r == IF getClient(acquired) THEN updateIssue(issueId, data, force)
                ELSE Threw(ClientUnavailable, FALSE)
       IN  /\ Call("updateIssue", issueId, data, force, acquired, r)
           /\ issues' = IF Sent(r)
                        THEN [issues EXCEPT ![issueId] = entityUpdate(@, r.updateData)]
                        ELSE issues
    /\ UNCHANGED <<comments, relations, projects, milestones>>

DeleteIssue(issueId, force, acquired) ==
    /\ UNCHANGED crudOthers
    /\ LET r == IF getClient(acquired) THEN deleteIssue(issueId, force)
                ELSE Threw(ClientUnavailable, FALSE)
       IN  /\ Call("deleteIssue", issueId, NoData, force, acquired, r)
           /\ issues' = IF Sent(r) THEN Removed(issues, issueId) ELSE issues
    /\ UNCHANGED <<comments, relations, projects, milestones>>

UpdateComment(commentId, body, force, acquired) ==
    /\ UNCHANGED crudOthers
    /\ LET r == IF getClient(acquired) THEN updateComment(commentId, body, force)
                ELSE Threw(ClientUnavailable, FALSE)
       IN  /\ Call("updateComment", commentId, [NoData EXCEPT !.title = body],
                   force, acquired, r)
           /\ comments' = IF Sent(r)
                          THEN [comments EXCEPT
                                  ![commentId] = entityUpdate(@, r.updateData)]
                          ELSE comments
    /\ UNCHANGED <<issues, relations, projects, milestones>>

DeleteComment(commentId, force, acquired) ==
    /\ UNCHANGED crudOthers
    /\ LET r == IF getClient(acquired) THEN deleteComment(commentId, force)
                ELSE Threw(ClientUnavailable, FALSE)
       IN  /\ Call("deleteComment", commentId, NoData, force, acquired, r)
           /\ comments' = IF Sent(r) THEN Removed(comments, commentId) ELSE comments
    /\ UNCHANGED <<issues, relations, projects, milestones>>

DeleteRelation(relationId, force, acquired) ==
    /\ UNCHANGED crudOthers
    /\ LET r == IF getClient(acquired) THEN deleteRelation(relationId, force)
                ELSE Threw(ClientUnavailable, FALSE)
       IN  /\ Call("deleteRelation", relationId, NoData, force, acquired, r)
           /\ relations' = IF Sent(r) THEN Removed(relations, relationId)
                           ELSE relations
    /\ UNCHANGED <<issues, comments, projects, milestones>>

UpdateProject(projectId, data, force, acquired) ==
    /\ UNCHANGED crudOthers
    /\ LET r == IF getClient(acquired) THEN updateProject(projectId, data, force)
                ELSE Threw(ClientUnavailable, FALSE)
       IN  /\ Call("updateProject", projectId, data, force, acquired, r)
           /\ projects' = IF Sent(r)
                          THEN [projects EXCEPT
                                  ![projectId] = entityUpdate(@, r.updateData)]
                          ELSE projects
    /\ UNCHANGED <<issues, comments, relations, milestones>>

DeleteProject(projectId, force, acquired) ==
    /\ UNCHANGED crudOthers
    /\ LET r == IF getClient(acquired) THEN deleteProject(projectId, force)
                ELSE Threw(ClientUnavailable, FALSE)
       IN  /\ Call("deleteProject", projectId, NoData, force, acquired, r)
           /\ projects' = IF Sent(r) THEN Removed(projects, projectId) ELSE projects
    /\ UNCHANGED <<issues, comments, relations, milestones>>

\* the one operation that asks for no client: it sends the raw request itself
UpdateProjectMilestone(milestoneId, data, force, apiKeySet) ==
    /\ UNCHANGED crudOthers
    /\ LET r == updateProjectMilestone(milestoneId, data, force, apiKeySet)
       IN  /\ Call("updateProjectMilestone", milestoneId, data, force, client, r)
           /\ milestones' = IF Sent(r)
                            THEN [milestones EXCEPT
                                    ![milestoneId] = entityUpdate(@, r.updateData)]
                            ELSE milestones
    /\ UNCHANGED <<issues, comments, relations, projects>>

DeleteProjectMilestone(milestoneId, force, acquired) ==
    /\ UNCHANGED crudOthers
    /\ LET r == IF getClient(acquired) THEN deleteProjectMilestone(milestoneId, force)
                ELSE Threw(ClientUnavailable, FALSE)
       IN  /\ Call("deleteProjectMilestone", milestoneId, NoData, force, acquired, r)
           /\ milestones' = IF Sent(r) THEN Removed(milestones, milestoneId)
                            ELSE milestones
    /\ UNCHANGED <<issues, comments, relations, projects>>

CreateIssue(data, acquired, accepted) ==
    /\ UNCHANGED crudOthers
    /\ created(issues, NewIssueIds) < Len(NewIssueIds)
    /\ LET r == IF getClient(acquired) THEN createIssue(data, accepted)
                ELSE Threw(ClientUnavailable, FALSE)
       IN  /\ Call("createIssue", "", data, FALSE, acquired, r)
           /\ issues' = IF Sent(r)
                        THEN Stored(issues, NewIssueIds,
                                 [exists     |-> TRUE,
                                  creatorId  |-> viewer,
                                  title      |-> r.updateData.title,
                                  assigneeId |-> orNull(r.updateData.assigneeId),
                                  stateId    |-> orNull(r.updateData.stateId),
                                  parentId   |-> orNull(r.updateData.parentId),
                                  projectId  |-> orNull(r.updateData.projectId)])
                        ELSE issues
    /\ UNCHANGED <<comments, relations, projects, milestones>>

CreateProject(data, acquired, accepted) ==
    /\ UNCHANGED crudOthers
    /\ created(projects, NewProjectIds) < Len(NewProjectIds)
    /\ LET r == IF getClient(acquired) THEN createProject(data, accepted)
                ELSE Threw(ClientUnavailable, FALSE)
       IN  /\ Call("createProject", "", data, FALSE, acquired, r)
           /\ projects' = IF Sent(r)
                          THEN Stored(projects, NewProjectIds,
                                   [exists |-> TRUE,
                                    leadId |-> orNull(r.updateData.leadId),
                                    name   |-> r.updateData.name])
                          ELSE projects
    /\ UNCHANGED <<issues, comments, relations, milestones>>

CreateRelation(data, force, acquired) ==
    /\ UNCHANGED crudOthers
    /\ created(relations, NewRelationIds) < Len(NewRelationIds)
    /\ LET r == IF getClient(acquired) THEN createRelation(data, force)
                ELSE Threw(ClientUnavailable, FALSE)
       IN  /\ Call("createRelation", data.issueId, data, force, acquired, r)
           /\ relations' = IF Sent(r)
                           THEN Stored(relations, NewRelationIds,
                                    [exists |-> TRUE, issueId |-> data.issueId])
                           ELSE relations
    /\ UNCHANGED <<issues, comments, projects, milestones>>

CreateProjectMilestone(data, force, acquired) ==
    /\ UNCHANGED crudOthers
    /\ created(milestones, NewMilestoneIds) < Len(NewMilestoneIds)
    /\ LET r == IF getClient(acquired) THEN createProjectMilestone(data, force)
                ELSE Threw(ClientUnavailable, FALSE)
       IN  /\ Call("createProjectMilestone", data.projectId, data, force, acquired, r)
           /\ milestones' = IF Sent(r)
                            THEN Stored(milestones, NewMilestoneIds,
                                     [exists |-> TRUE, projectId |-> data.projectId,
                                      name |-> data.name])
                            ELSE milestones
    /\ UNCHANGED <<issues, comments, relations, projects>>

CrudNext ==
    \/ \E issueId \in IssueIds, relatedIssueId \in {"i2", "i9"}, force \in BOOLEAN,
          acquired \in AcquireOutcomes :
          CreateRelation([issueId |-> issueId, relatedIssueId |-> relatedIssueId],
                         force, acquired)
    \/ \E projectId \in ProjectIds, force \in BOOLEAN, acquired \in AcquireOutcomes :
          CreateProjectMilestone([name |-> "mn1", projectId |-> projectId],
                                 force, acquired)
    \/ \E id \in IssueIds, data \in NamePayloads, force \in BOOLEAN,
          acquired \in AcquireOutcomes : UpdateIssue(id, data, force, acquired)
    \/ \E id \in IssueIds, force \in BOOLEAN, acquired \in AcquireOutcomes :
          DeleteIssue(id, force, acquired)
    \/ \E id \in CommentIds, force \in BOOLEAN, acquired \in AcquireOutcomes :
          UpdateComment(id, "b1", force, acquired)
    \/ \E id \in CommentIds, force \in BOOLEAN, acquired \in AcquireOutcomes :
          DeleteComment(id, force, acquired)
    \/ \E id \in RelationIds, force \in BOOLEAN, acquired \in AcquireOutcomes :
          DeleteRelation(id, force, acquired)
    \/ \E id \in ProjectIds, data \in NamePayloads, force \in BOOLEAN,
          acquired \in AcquireOutcomes : UpdateProject(id, data, force, acquired)
    \/ \E id \in ProjectIds, force \in BOOLEAN, acquired \in AcquireOutcomes :
          DeleteProject(id, force, acquired)
    \/ \E id \in MilestoneIds, data \in NamePayloads, force \in BOOLEAN,
          apiKeySet \in BOOLEAN : UpdateProjectMilestone(id, data, force, apiKeySet)
    \/ \E id \in MilestoneIds, force \in BOOLEAN, acquired \in AcquireOutcomes :
          DeleteProjectMilestone(id, force, acquired)

\* updates of one issue, with every shape of payload
IssueUpdateNext ==
    \E data \in IssuePayloads, force \in BOOLEAN, acquired \in AcquireOutcomes :
        UpdateIssue("i1", data, force, acquired)

\* creations, and the updates that carry lists of ids
IdListsNext ==
    \/ \E data \in IssueCreations, acquired \in AcquireOutcomes, accepted \in BOOLEAN :
          CreateIssue(data, acquired, accepted)
    \/ \E data \in ProjectCreations, acquired \in AcquireOutcomes, accepted \in BOOLEAN :
          CreateProject(data, acquired, accepted)
    \/ \E data \in LabelPayloads, force \in BOOLEAN, acquired \in AcquireOutcomes :
          UpdateIssue("i1", data, force, acquired)
    \/ \E data \in LabelPayloads, force \in BOOLEAN, acquired \in AcquireOutcomes :
          UpdateProject("p1", data, force, acquired)

(***************************************************************************)
(* Authentication module and the plugin's tools                            *)
(***************************************************************************)

retryDelayMs == 1000

\* what one read of client.viewer can do: answer a user, answer nothing, throw
ViewerOutcomes == {"user", "nouser", "throws"}

\* the answers of the successive reads of client.viewer in one call
ViewerRuns == [1..3 -> ViewerOutcomes]

\* a getLinearClient that keeps re-checking while the checks fail
getLinearClientRetryAgain(hasClient, viewers) ==
    IF ~hasClient
    THEN [client |-> FALSE, checks |-> 0, waited |-> 0, threw |-> FALSE]
    ELSE IF viewers[1] # "throws"
    THEN [client |-> TRUE, checks |-> 1, waited |-> 0, threw |-> FALSE]
    ELSE IF viewers[2] # "throws"
    THEN [client |-> TRUE, checks |-> 2, waited |-> retryDelayMs, threw |-> FALSE]
    ELSE [client |-> viewers[3] # "throws", checks |-> 3,
          waited |-> 2 * retryDelayMs, threw |-> FALSE]

\* client: a client is returned (else null); checks: reads of client.viewer
\* made; waited: milliseconds slept; threw: an exception left the function
getLinearClient(hasClient, viewers) ==
    IF ~hasClient
    THEN [client |-> FALSE, checks |-> 0, waited |-> 0, threw |-> FALSE]
    ELSE IF viewers[1] # "throws"
    THEN [client |-> TRUE, checks |-> 1, waited |-> 0, threw |-> FALSE]
    ELSE IF viewers[2] # "throws"
    THEN [client |-> TRUE, checks |-> 2, waited |-> retryDelayMs, threw |-> FALSE]
    ELSE [client |-> FALSE, checks |-> 2, waited |-> retryDelayMs, threw |-> FALSE]

AuthFailedText     == "Authentication failed - check API key and connection"
AuthenticatedText  == "Successfully authenticated as <name>"
NoUserText         == "Authentication failed - could not retrieve user"
AuthErrorText      == "Authentication error - <error>"
ApiKeyNotSetText   == "LINEAR_API_KEY environment variable not set"

\* a testLinearAuth whose read of the user is not guarded by try/catch
testLinearAuthUncaught(hasClient, viewers) ==
    LET c == getLinearClient(hasClient, viewers)
    IN  IF ~c.client
        THEN [text |-> AuthFailedText, threw |-> FALSE, trackerCalls |-> c.checks]
        ELSE LET user == viewers[c.checks + 1]
             IN  [text |-> CASE user = "user"   -> AuthenticatedText
                             [] user = "nouser" -> NoUserText
                             [] OTHER           -> "",
                  threw |-> user = "throws", trackerCalls |-> c.checks + 1]

\* text: the string returned ("" when it threw); trackerCalls: reads of
\* client.viewer made
testLinearAuth(hasClient, viewers) ==
    LET c == getLinearClient(hasClient, viewers)
    IN  IF ~c.client
        THEN [text |-> AuthFailedText, threw |-> FALSE, trackerCalls |-> c.checks]
        ELSE LET user == viewers[c.checks + 1]
             IN  [text |-> CASE user = "user"   -> AuthenticatedText
                             [] user = "nouser" -> NoUserText
                             [] OTHER           -> AuthErrorText,
                  threw |-> FALSE, trackerCalls |-> c.checks + 1]

\* the linear_auth tool of the stand-alone plugin, which reads the key itself
linearAuthStandalone(keySet, viewers) ==
    IF ~keySet
    THEN [text |-> ApiKeyNotSetText, threw |-> FALSE, trackerCalls |-> 0]
    ELSE [text |-> CASE viewers[1] = "user"   -> AuthenticatedText
                     [] viewers[1] = "nouser" -> NoUserText
                     [] OTHER                 -> AuthErrorText,
          threw |-> FALSE, trackerCalls |-> 1]

AuthTools   == {"linear_auth", "linear_webhook_test"}
EntityTools == {"linear_create_issue", "linear_update_issue", "linear_add_comment",
                "linear_update_comment", "linear_create_relation",
                "linear_create_project", "linear_update_project",
                "linear_create_milestone"}
GetTools    == {"linear_get_issue", "linear_get_project"}
DeleteTools == {"linear_delete_issue", "linear_delete_comment",
                "linear_delete_relation", "linear_delete_project",
                "linear_delete_milestone"}
ListTools   == {"linear_list_issues", "linear_list_comments", "linear_list_states",
                "linear_list_labels", "linear_list_children", "linear_list_relations",
                "linear_list_projects", "linear_list_my_projects",
                "linear_list_project_issues", "linear_list_milestones"}
OtherTools  == {"linear_update_milestone", "linear_webhook_process",
                "linear_webhook_status", "linear_auth_standalone"}

Tools == AuthTools \cup EntityTools \cup GetTools \cup DeleteTools \cup ListTools
           \cup OtherTools

\* what the call a tool makes underneath can do: answer a value, answer
\* undefined/null/false, throw an Error, throw something else, or answer a value
\* whose further reads throw
CallOutcomes == {"value", "empty", "throws Error", "throws other", "value then throws"}

Throws(outcome) == outcome \in {"throws Error", "throws other"}

\* form: "json" for a JSON.stringify'd object, "object" for a plain object,
\* "text" for a message; success: the success field, "none" when there is none;
\* error: the error field ("" when there is none)
ToolResult(form, success, error) ==
    [completion |-> "returned", form |-> form, success |-> success, error |-> error]

ToolThrew == [completion |-> "threw", form |-> "", success |-> "none", error |-> ""]

\* the catch block the tools share
toolCatch(form, outcome) ==
    ToolResult(form, "false",
               IF outcome = "throws other" THEN "Unknown error" ELSE "error.message")

\* tools without their try/catch
executeNoCatch(name, outcome, hasClient, viewers) ==
    IF Throws(outcome) \/ outcome = "value then throws"
    THEN ToolThrew
    ELSE ToolResult("json", "true", "")

execute(name, outcome, hasClient, viewers) ==
    CASE name \in AuthTools ->
           LET r == testLinearAuth(hasClient, viewers)
           IN  IF r.threw THEN ToolThrew ELSE ToolResult("text", "none", "")
      [] name = "linear_auth_standalone" ->
           LET r == linearAuthStandalone(hasClient, viewers)
           IN  IF r.threw THEN ToolThrew ELSE ToolResult("text", "none", "")
      [] name \in EntityTools ->
           IF Throws(outcome) THEN toolCatch("object", outcome)
           ELSE IF outcome = "empty" THEN ToolResult("json", "false", "Failed to ...")
           ELSE ToolResult("json", "true", "")
      [] name \in GetTools ->
           IF Throws(outcome) \/ outcome = "value then throws"
           THEN toolCatch("object", outcome)
           ELSE IF outcome = "empty" THEN ToolResult("json", "false", "... not found")
           ELSE ToolResult("json", "true", "")
      [] name \in DeleteTools ->
           IF Throws(outcome) THEN toolCatch("object", outcome)
           ELSE IF outcome = "empty" THEN ToolResult("json", "false", "")
           ELSE ToolResult("json", "true", "")
      [] name \in ListTools ->
           IF Throws(outcome) \/ outcome = "value then throws"
           THEN toolCatch("object", outcome)
           ELSE ToolResult("json", "true", "")
      [] name = "linear_update_milestone" ->
           IF Throws(outcome) THEN toolCatch("json", outcome)
           ELSE ToolResult("json", IF outcome = "empty" THEN "false" ELSE "true", "")
      [] name = "linear_webhook_process" ->
           IF Throws(outcome) \/ outcome = "value then throws"
           THEN toolCatch("object", outcome)
           ELSE IF outcome = "empty" THEN ToolResult("object", "false", "result.error")
           ELSE ToolResult("object", "true", "")
      [] OTHER -> ToolResult("object", "true", "")

NoAuthCall ==
    [op |-> "", client |-> FALSE, checks |-> 0, waited |-> 0, threw |-> FALSE,
     text |-> "", viewers |-> [k \in 1..3 |-> "user"]]

NoToolCall ==
    [name |-> "", outcome |-> "", completion |-> "", form |-> "", success |-> "none",
     error |-> ""]

PluginIdle ==
    /\ linearClient = TRUE
    /\ authCall = NoAuthCall
    /\ toolCall = NoToolCall

\* the module is loaded with or without LINEAR_API_KEY in the environment
PluginInit ==
    /\ linearClient \in BOOLEAN
    /\ authCall = NoAuthCall
    /\ toolCall = NoToolCall

GetLinearClient(viewers) ==
    /\ UNCHANGED pluginOthers
    /\ LET c == getLinearClient(linearClient, viewers)
       IN  authCall' = [op |-> "getLinearClient", client |-> c.client,
                        checks |-> c.checks, waited |-> c.waited, threw |-> c.threw,
                        text |-> "", viewers |-> viewers]
    /\ toolCall' = NoToolCall
    /\ UNCHANGED linearClient

TestLinearAuth(viewers) ==
    /\ UNCHANGED pluginOthers
    /\ LET r == testLinearAuth(linearClient, viewers)
       IN  authCall' = [op |-> "testLinearAuth", client |-> FALSE,
                        checks |-> r.trackerCalls, waited |-> 0, threw |-> r.threw,
                        text |-> r.text, viewers |-> viewers]
    /\ toolCall' = NoToolCall
    /\ UNCHANGED linearClient

Execute(name, outcome, viewers) ==
    /\ UNCHANGED pluginOthers
    /\ LET r == execute(name, outcome, linearClient, viewers)
       IN  toolCall' = [name |-> name, outcome |-> outcome,
                        completion |-> r.completion, form |-> r.form,
                        success |-> r.success, error |-> r.error]
    /\ authCall' =
          IF name \in AuthTools \cup {"linear_auth_standalone"}
          THEN LET a == IF name \in AuthTools
                        THEN testLinearAuth(linearClient, viewers)
                        ELSE linearAuthStandalone(linearClient, viewers)
               IN  [op |-> name, client |-> FALSE, checks |-> a.trackerCalls,
                    waited |-> 0, threw |-> a.threw, text |-> a.text,
                    viewers |-> viewers]
          ELSE NoAuthCall
    /\ UNCHANGED linearClient

PluginNext ==
    \/ \E viewers \in ViewerRuns : GetLinearClient(viewers)
    \/ \E viewers \in ViewerRuns : TestLinearAuth(viewers)
    \/ \E name \in AuthTools \cup {"linear_auth_standalone"}, viewers \in ViewerRuns :
          Execute(name, "value", viewers)
    \/ \E name \in Tools \ (AuthTools \cup {"linear_auth_standalone"}),
          outcome \in CallOutcomes :
          Execute(name, outcome, NoAuthCall.viewers)

(***************************************************************************)
(* Concurrent operations on one LinearCRUD instance                        *)
(*                                                                         *)
(* Each operation runs getClient() and then, for its ownership check,      *)
(* getCurrentUser(); it can be suspended at every await.                   *)
(***************************************************************************)

MaxTasks == 3

Tasks == 1..MaxTasks

AsyncIdle ==
    /\ pc = [t \in Tasks |-> "start"]
    /\ clientFetches = 0
    /\ userFetches = 0
    /\ fetchFailed = FALSE

\* this.client ??= await getLinearClient(), up to the await: the cached client
\* is read and, when there is none, getLinearClient() is called
GetClientBegin(t) ==
    /\ UNCHANGED asyncOthers
    /\ pc[t] = "start"
    /\ IF client
       THEN /\ pc' = [pc EXCEPT ![t] = "gotClient"]
            /\ UNCHANGED clientFetches
       ELSE /\ pc' = [pc EXCEPT ![t] = "awaitClient"]
            /\ clientFetches' = clientFetches + 1
    /\ UNCHANGED <<client, currentUser, userFetches, fetchFailed>>

\* the await returns: the answer is assigned to this.client, null included
GetClientResume(t, acquired) ==
    /\ UNCHANGED asyncOthers
    /\ pc[t] = "awaitClient"
    /\ client' = acquired
    /\ fetchFailed' = (fetchFailed \/ ~acquired)
    /\ pc' = [pc EXCEPT ![t] = IF acquired THEN "gotClient" ELSE "threw"]
    /\ UNCHANGED <<currentUser, clientFetches, userFetches>>

\* getCurrentUser up to its first suspension: nothing to do when the user is
\* cached; else getClient() again and then the read of client.viewer
GetCurrentUserBegin(t) ==
    /\ UNCHANGED asyncOthers
    /\ pc[t] = "gotClient"
    /\ IF currentUser # Null
       THEN /\ pc' = [pc EXCEPT ![t] = "done"]
            /\ UNCHANGED <<clientFetches, userFetches>>
       ELSE IF client
       THEN /\ pc' = [pc EXCEPT ![t] = "awaitViewer"]
            /\ userFetches' = userFetches + 1
            /\ UNCHANGED clientFetches
       ELSE /\ pc' = [pc EXCEPT ![t] = "userAwaitClient"]
            /\ clientFetches' = clientFetches + 1
            /\ UNCHANGED userFetches
    /\ UNCHANGED <<client, currentUser, fetchFailed>>

\* getClient() inside getCurrentUser returns
GetCurrentUserClientResume(t, acquired) ==
    /\ UNCHANGED asyncOthers
    /\ pc[t] = "userAwaitClient"
    /\ client' = acquired
    /\ fetchFailed' = (fetchFailed \/ ~acquired)
    /\ IF acquired
       THEN /\ pc' = [pc EXCEPT ![t] = "awaitViewer"]
            /\ userFetches' = userFetches + 1
       ELSE /\ pc' = [pc EXCEPT ![t] = "threw"]
            /\ UNCHANGED userFetches
    /\ UNCHANGED <<currentUser, clientFetches>>

\* this.currentUser = await client.viewer: the await returns
GetCurrentUserResume(t) ==
    /\ UNCHANGED asyncOthers
    /\ pc[t] = "awaitViewer"
    /\ currentUser' = viewer
    /\ pc' = [pc EXCEPT ![t] = "done"]
    /\ UNCHANGED <<client, clientFetches, userFetches, fetchFailed>>

AsyncNext ==
    \E t \in Tasks :
        \/ GetClientBegin(t)
        \/ \E acquired \in BOOLEAN : GetClientResume(t, acquired)
        \/ GetCurrentUserBegin(t)
        \/ \E acquired \in BOOLEAN : GetCurrentUserClientResume(t, acquired)
        \/ GetCurrentUserResume(t)

(***************************************************************************)
(* Webhook event processor and the tool linear_webhook_process             *)
(***************************************************************************)

\* Bound: the text of a payload is assembled from at most MaxTextChunks pieces.
MaxTextChunks == 1

RECURSIVE TextsOf(_)
TextsOf(n) ==
    IF n = 0 THEN {<<>>}
    ELSE LET shorter == TextsOf(n - 1)
         IN  shorter \cup {t \o c : t \in shorter, c \in Chunks}

PayloadTypes   == {"Comment", "Issue", "Project"}
PayloadActions == {"create", "update", "remove"}

\* text: the comment body, or the issue description of an issue event;
\* signed: whether the delivery carries the signature of its body
Payloads ==
    [type : PayloadTypes, action : PayloadActions, text : TextsOf(MaxTextChunks),
     signed : BOOLEAN]

NoDelivery == [type |-> "", action |-> "", text |-> <<>>, signed |-> FALSE]

\* the payload's declared type and action make it a comment or an issue event
Recognized(payload) ==
    /\ payload.type \in {"Comment", "Issue"}
    /\ payload.action \in {"create", "update"}

Terminal == {"NoReferenceFound", "ResponsePosted", "Failed"}

ProcessingResult(success, processed, error) ==
    [completion |-> "returned", success |-> success, processed |-> processed,
     error |-> error]

\* processEvent ended in an exception
ProcessorThrew ==
    [completion |-> "threw", success |-> "undefined", processed |-> "undefined",
     error |-> "error.message"]

NoResult ==
    [completion |-> "", success |-> "undefined", processed |-> "undefined",
     error |-> ""]

NoReturn == [success |-> "", processed |-> "", error |-> ""]

\* a tool that reports what was not processed as not successful
linear_webhook_processUnprocessedFails(result) ==
    IF result.completion = "threw"
    THEN [success |-> "false", processed |-> "undefined", error |-> result.error]
    ELSE [success |-> result.processed, processed |-> result.processed,
          error |-> result.error]

\* execute of the tool, given how processEvent(args.payload) ended
linear_webhook_process(result) ==
    IF result.completion = "threw"
    THEN [success |-> "false", processed |-> "undefined", error |-> result.error]
    ELSE [success |-> result.success, processed |-> result.processed,
          error |-> result.error]

\* what creating the reply through the command executor and the CRUD client can do
PostOutcomes == {"posted", "fails", "throws"}

ProcIdle ==
    /\ delivery = NoDelivery
    /\ procState = "Idle"
    /\ procResult = NoResult
    /\ procReturn = NoReturn

\* execute is called with args.payload and hands it to processEvent
ProcessEvent(payload) ==
    /\ UNCHANGED procOthers
    /\ procState = "Idle" \/ procReturn # NoReturn
    /\ delivery' = payload
    /\ procState' = "Received"
    /\ procResult' = NoResult
    /\ procReturn' = NoReturn

\* Received -> Verified: the signature check
Verify ==
    /\ UNCHANGED procOthers
    /\ procState = "Received"
    /\ IF delivery.signed
       THEN /\ procState' = "Verified"
            /\ UNCHANGED procResult
       ELSE /\ procState' = "Failed"
            /\ procResult' = ProcessingResult("false", "false", "Invalid signature")
    /\ UNCHANGED <<delivery, procReturn>>

\* Verified -> Classified by the declared type and action
Classify ==
    /\ UNCHANGED procOthers
    /\ procState = "Verified"
    /\ IF Recognized(delivery)
       THEN /\ procState' = "Classified"
            /\ UNCHANGED procResult
       ELSE /\ procState' = "NoReferenceFound"
            /\ procResult' = ProcessingResult("true", "false", "")
    /\ UNCHANGED <<delivery, procReturn>>

\* Classified -> ReferencesFound: the reference detector runs over the text
Detect ==
    /\ UNCHANGED procOthers
    /\ procState = "Classified"
    /\ IF detectReferences(delivery.text, lastIndex).refs # <<>>
       THEN /\ procState' = "ReferencesFound"
            /\ UNCHANGED procResult
       ELSE /\ procState' = "NoReferenceFound"
            /\ procResult' = ProcessingResult("true", "false", "")
    /\ UNCHANGED <<delivery, procReturn>>

\* ReferencesFound -> CommandsExtracted
ExtractCommands ==
    /\ UNCHANGED procOthers
    /\ procState = "ReferencesFound"
    /\ procState' = "CommandsExtracted"
    /\ UNCHANGED <<delivery, procResult, procReturn>>

\* CommandsExtracted -> ResponsePosted, unless the executor or the tracker fails
PostResponse(outcome) ==
    /\ UNCHANGED procOthers
    /\ procState = "CommandsExtracted"
    /\ procState' = IF outcome = "posted" THEN "ResponsePosted" ELSE "Failed"
    /\ procResult' =
          CASE outcome = "posted" -> ProcessingResult("true", "true", "")
            [] outcome = "fails"  -> ProcessingResult("false", "false", "error.message")
            [] OTHER              -> ProcessorThrew
    /\ UNCHANGED <<delivery, procReturn>>

\* execute returns
Return ==
    /\ UNCHANGED procOthers
    /\ procState \in Terminal
    /\ procReturn = NoReturn
    /\ procReturn' = linear_webhook_process(procResult)
    /\ UNCHANGED <<delivery, procState, procResult>>

\* the steps of a running execute
ProcRun ==
    \/ Verify
    \/ Classify
    \/ Detect
    \/ ExtractCommands
    \/ \E outcome \in PostOutcomes : PostResponse(outcome)
    \/ Return

ProcNext ==
    \/ \E payload \in Payloads : ProcessEvent(payload)
    \/ ProcRun

(***************************************************************************)
(* Specifications                                                          *)
(***************************************************************************)

InitDetector ==
    /\ DetInit /\ StreamConstructed /\ HttpIdle /\ webhookSecret = "s1" /\ CrudIdle
    /\ PluginIdle /\ AsyncIdle /\ ProcIdle

SpecDetector == InitDetector /\ [][DetNext]_vars

InitStream ==
    /\ StreamInit /\ DetInit /\ HttpIdle /\ webhookSecret = "s1" /\ CrudIdle
    /\ PluginIdle /\ AsyncIdle /\ ProcIdle

SpecStream == InitStream /\ [][StreamNext]_vars

InitStreamClock ==
    /\ StreamConstructed /\ DetInit /\ HttpIdle /\ webhookSecret = "s1" /\ CrudIdle
    /\ PluginIdle /\ AsyncIdle /\ ProcIdle

SpecStreamClock == InitStreamClock /\ [][StreamClockNext]_vars

InitWebhook ==
    /\ HttpInit /\ DetInit /\ StreamConstructed /\ CrudIdle
    /\ PluginIdle /\ AsyncIdle /\ ProcIdle

SpecWebhook == InitWebhook /\ [][HttpNext]_vars

InitCrud ==
    /\ CrudInit /\ DetInit /\ StreamConstructed /\ HttpIdle /\ webhookSecret = "s1"
    /\ PluginIdle /\ AsyncIdle /\ ProcIdle

SpecCrud == InitCrud /\ [][CrudNext]_vars

InitIssueUpdate ==
    /\ CrudIdle /\ DetInit /\ StreamConstructed /\ HttpIdle /\ webhookSecret = "s1"
    /\ PluginIdle /\ AsyncIdle /\ ProcIdle

SpecIssueUpdate == InitIssueUpdate /\ [][IssueUpdateNext]_vars

InitIdLists ==
    /\ CrudIdle /\ DetInit /\ StreamConstructed /\ HttpIdle /\ webhookSecret = "s1"
    /\ PluginIdle /\ AsyncIdle /\ ProcIdle

SpecIdLists == InitIdLists /\ [][IdListsNext]_vars

InitPlugin ==
    /\ PluginInit /\ DetInit /\ StreamConstructed /\ HttpIdle /\ webhookSecret = "s1"
    /\ CrudIdle /\ AsyncIdle /\ ProcIdle

SpecPlugin == InitPlugin /\ [][PluginNext]_vars

InitAsync ==
    /\ AsyncIdle /\ CrudIdle /\ DetInit /\ StreamConstructed /\ HttpIdle
    /\ webhookSecret = "s1" /\ PluginIdle /\ ProcIdle

SpecCrudAsync == InitAsync /\ [][AsyncNext]_vars

InitProcessor ==
    /\ ProcIdle /\ DetInit /\ StreamConstructed /\ HttpIdle /\ webhookSecret = "s1"
    /\ CrudIdle /\ PluginIdle /\ AsyncIdle

SpecProcessor == InitProcessor /\ [][ProcNext]_vars

\* an execute that was called runs to its return: every await of it is answered
FairProcessor == SpecProcessor /\ WF_vars(ProcRun)

(***************************************************************************)
(* Claims about the event stream manager                                   *)
(***************************************************************************)

\* a step that is one streamEvent call
StreamEventStep == lastOp' = "streamEvent" /\ nCalls' = nCalls + 1

\* C4: the history never holds more than maxHistorySize (1000) events, and an
\* event accepted while it holds 1000 evicts exactly the oldest one: the others
\* keep their order and the new event is last.
C4_HistoryBoundedFifo ==
    /\ [](Len(eventHistory) <= maxHistorySize)
    /\ [][(StreamEventStep /\ emitted' # <<>>) =>
            /\ formatted' # <<>>
            /\ eventHistory'[Len(eventHistory')] = formatted'[1]
            /\ IF Len(eventHistory) = maxHistorySize
               THEN /\ Len(eventHistory') = maxHistorySize
                    /\ SubSeq(eventHistory', 1, maxHistorySize - 1) = Tail(eventHistory)
               ELSE SubSeq(eventHistory', 1, Len(eventHistory') - 1) = eventHistory
          ]_vars

\* C4 witness: the 1001st accepted event has just evicted the first one
C4_Witness ==
    /\ lastOp = "streamEvent" /\ emitted # <<>>
    /\ Len(eventHistory) = maxHistorySize
    /\ eventHistory[1] = WarmHistory[2]
    /\ eventHistory[maxHistorySize] = formatted[1]
    /\ \A k \in 1..maxHistorySize : eventHistory[k] # WarmHistory[1]

\* C5: before the first start() the manager is inactive, and a streamEvent
\* call made when stop() (or nothing) was called last returns null, emits on no
\* channel and leaves the history as it was.
C5_StoppedIsNoOp ==
    /\ [](lifecycle = "constructed" => ~isActive)
    /\ [][(StreamEventStep /\ lifecycle # "started") =>
            /\ streamResult' = <<>>
            /\ emitted' = <<>>
            /\ eventHistory' = eventHistory
          ]_vars

\* C5 witness: a streamEvent call after stop() on a manager that holds events
C5_Witness ==
    /\ lastOp = "streamEvent"
    /\ lifecycle = "stopped"
    /\ eventHistory # <<>>
    /\ streamResult = <<>>

\* b is a substring of a, letter case ignored
SubstringIgnoringCase(a, b) ==
    LET la == toLowerCase(Chars(a))
        lb == toLowerCase(Chars(b))
    IN  \E i \in 1..(Len(la) + 1) :
            /\ i + Len(lb) - 1 <= Len(la)
            /\ \A k \in 1..Len(lb) : la[i + k - 1] = lb[k]

\* the filter set keeps the event, as the claim words it
KeptByFilters(fs, event) ==
    \/ fs = {}
    \/ \E f \in fs :
          \/ SubstringIgnoringCase(event.type, f)
          \/ SubstringIgnoringCase(event.severity, f)
          \/ \E k \in 1..Len(event.tags) : SubstringIgnoringCase(event.tags[k], f)
          \/ SubstringIgnoringCase(event.actor, f)
          \/ SubstringIgnoringCase(event.identifier, f)

\* the last call was a streamEvent on an active manager that formatted an event
StreamedWhileActive == lastOp = "streamEvent" /\ formatted # <<>>

\* the event the last call formatted is the newest entry of the history
AppendedLast ==
    eventHistory # <<>> /\ eventHistory[Len(eventHistory)] = formatted[1]

\* C6 (as claimed): while active, streamEvent appends and returns the event if
\* and only if the filter set is empty or some filter is a case-insensitive
\* substring of its type, severity, a tag, actor or issue identifier; otherwise
\* the event is dropped and null is returned.
C6_KeptIffFilterMatches ==
    StreamedWhileActive =>
        IF KeptByFilters(filters, formatted[1])
        THEN AppendedLast /\ streamResult = formatted
        ELSE ~AppendedLast /\ streamResult = <<>>

\* C6, the part the filters decide: the event is appended if and only if the
\* filters keep it, a dropped event returns null, and a returned event is the
\* appended one.
C6_FilterDecidesAppend ==
    StreamedWhileActive =>
        /\ AppendedLast <=> KeptByFilters(filters, formatted[1])
        /\ ~KeptByFilters(filters, formatted[1]) => streamResult = <<>> /\ emitted = <<>>
        /\ streamResult # <<>> => streamResult = formatted
        /\ (KeptByFilters(filters, formatted[1]) /\ ~caught) => streamResult = formatted

\* C25 (as claimed): a streamEvent call that returns null leaves the history
\* as it was, a call whose subscriber throws included.
C25_NullResultLeavesHistory ==
    [][(StreamEventStep /\ streamResult' = <<>>) => eventHistory' = eventHistory]_vars

\* C27 (as claimed): the events of the history have pairwise distinct ids,
\* also when two events of one type for one entity arrive within the same
\* clock millisecond.
C27_HistoryIdsDistinct ==
    \A i, j \in 1..Len(eventHistory) :
        i # j => eventHistory[i].id # eventHistory[j].id

\* the last streamEvent call accepted an event: the manager was active, the
\* event was formatted and the filters keep it
Accepted ==
    /\ lastOp = "streamEvent"
    /\ isActive
    /\ formatted # <<>>
    /\ KeptByFilters(filters, formatted[1])

\* C15 (as claimed): an accepted event is emitted on 'event:streamed' and on
\* 'event:<type>'; a rejected one on neither.
C15_AcceptedNotifiesBothChannels ==
    lastOp = "streamEvent" =>
        IF Accepted
        THEN emitted = <<"event:streamed", TypeChannel(formatted[1].type)>>
        ELSE emitted = <<>>

\* C16: streamEvent lets no exception through: for any raw data, null data
\* and data with missing fields included, it returns the event it formatted or
\* null, and null when formatting failed.
C16_ReturnsEventOrNull ==
    lastOp = "streamEvent" =>
        /\ streamResult = <<>> \/ streamResult = formatted
        /\ formatted = <<>> => streamResult = <<>>
        /\ (isActive /\ formatted = <<>>) => caught

\* C16 witness: an active manager was handed null data
C16_Witness ==
    /\ lastOp = "streamEvent"
    /\ isActive
    /\ formatted = <<>>
    /\ caught
    /\ streamResult = <<>>

(***************************************************************************)
(* Claims about the reference detector                                     *)
(***************************************************************************)

\* the positions (1-based) where the marker occurs in s, letter case ignored
MarkerOccurrences(s) == {i \in 1..Len(s) : MarkerAt(s, i)}

\* the k-th smallest element of a set of numbers
Nth(S, k) == CHOOSE i \in S : Cardinality({j \in S : j < i}) = k - 1

\* C7 (as claimed): a text with N occurrences of the marker yields exactly N
\* references, in order of position and not overlapping, the k-th starting at
\* the k-th occurrence and ending at the next occurrence or at the end of
\* the text.
C7_OneReferencePerMarker ==
    "detectReferences" \in computed =>
        LET occ == MarkerOccurrences(comment)
            N   == Cardinality(occ)
        IN  /\ Len(references) = N
            /\ \A k \in 1..N :
                  /\ references[k].position.start = Nth(occ, k) - 1
                  /\ references[k].position.end =
                        IF k < N THEN Nth(occ, k + 1) - 1 ELSE Len(comment)
            /\ \A k \in 1..(N - 1) :
                  references[k].position.end <= references[k + 1].position.start

\* the text after the marker a reference starts with
AfterMarker(raw) == SubSeq(raw, Len(MarkerLower) + 1, Len(raw))

\* the longest prefix of s without white space
NonSpacePrefix(s) ==
    LET n == Max({k \in 0..Len(s) : \A j \in 1..k : ~isSpace(s[j])})
    IN  SubSeq(s, 1, n)

\* the first white-space-delimited token of s
FirstToken(s) == NonSpacePrefix(TrimLeft(s))

\* C8 (as claimed): extractAction returns the first white-space-delimited
\* token after the marker, lower-cased ("run-tests" for
\* "@opencode run-tests --verbose").
C8_ActionIsFirstToken ==
    LET rest  == AfterMarker(references[1].raw)
        token == FirstToken(rest)
    IN  ( /\ "extractAction" \in computed
          /\ rest # <<>> /\ isSpace(rest[1])
          /\ token # <<>> /\ isWordChar(token[1]) )
            => action = toLowerCase(token)

\* s holds no word character
NoWordChar(s) == \A k \in 1..Len(s) : ~isWordChar(s[k])

\* C24: extractAction answers "help" for a reference without a word character
\* after the marker; a text that is the marker alone is detected as one
\* reference, the marker itself, whose action is therefore "help".
C24_NoWordDefaultsToHelp ==
    /\ ( /\ "extractAction" \in computed
         /\ NoWordChar(AfterMarker(references[1].raw)) )
           => action = Help
    /\ ( /\ "detectReferences" \in computed
         /\ toLowerCase(comment) = MarkerLower )
           => /\ Len(references) = 1
              /\ references[1].raw = comment
              /\ AfterMarker(references[1].raw) = <<>>

\* C24 witness: the action of the only reference of the text "@opencode"
C24_Witness ==
    /\ comment = MarkerLower
    /\ {"detectReferences", "extractAction"} \subseteq computed
    /\ Len(references) = 1
    /\ action = Help

\* C9: hasOpenCodeReference(text) is true exactly when detectReferences(text)
\* returns a non-empty list.
C9_HasIffDetected ==
    {"detectReferences", "hasOpenCodeReference"} \subseteq computed
        => (hasReference <=> Len(references) > 0)

\* C9 witness: both were computed for a text with two references
C9_Witness ==
    /\ {"detectReferences", "hasOpenCodeReference"} \subseteq computed
    /\ hasReference
    /\ Len(references) = 2

(***************************************************************************)
(* Claims about the webhook event processor                                *)
(***************************************************************************)

\* the delivery is a correctly signed Comment/create whose text has no marker
NoMarkerComment ==
    /\ delivery.type = "Comment"
    /\ delivery.action = "create"
    /\ delivery.signed
    /\ MarkerOccurrences(delivery.text) = {}

\* C21: a correctly signed Comment/create payload whose text contains no marker
\* brings the processor to the terminal state NoReferenceFound, and the tool
\* returns success true with processed false; whenever the processor ended in
\* NoReferenceFound the return says success true, never success false.
C21_NoMarkerIsSuccessNotProcessed ==
    /\ [](procState = "NoReferenceFound" /\ procReturn # NoReturn
            => procReturn.success = "true" /\ procReturn.processed = "false")
    /\ [](NoMarkerComment => procState \notin {"ReferencesFound", "CommandsExtracted",
                                               "ResponsePosted", "Failed"})
    /\ (NoMarkerComment /\ procState = "Received")
          ~> (NoMarkerComment /\ procState = "NoReferenceFound"
                /\ procReturn.success = "true" /\ procReturn.processed = "false")

C21_Witness ==
    /\ NoMarkerComment
    /\ delivery.text # <<>>
    /\ procState = "NoReferenceFound"
    /\ procReturn = [success |-> "true", processed |-> "false", error |-> ""]

(***************************************************************************)
(* Claims about the webhook transport                                      *)
(***************************************************************************)

\* the request carries a signature header (any letter case) whose value is the
\* HMAC of its raw body under the configured secret
SignatureAccepted(event, secret) ==
    \E h \in event.headers :
        /\ headerNameLower(h[1]) = SignatureHeader
        /\ secret # ""
        /\ h[2] = Hmac(event.body, secret)

BodyPresent(event) == event.body # NoBody /\ event.body # ""

\* C10: a POST with a body whose signature is missing or does not verify
\* against the raw body is answered 401, and the body is neither parsed nor
\* handed to the webhook handler.
C10_BadSignatureIs401 ==
    ( /\ httpRequest.httpMethod = "POST"
      /\ BodyPresent(httpRequest)
      /\ ~SignatureAccepted(httpRequest, webhookSecret) )
        => /\ httpResponse.statusCode = 401
           /\ \A k \in 1..Len(httpSteps) :
                  httpSteps[k] \notin {"JSON.parse", "handleWebhook"}

\* C10 witness: a POST of a valid payload signed with the wrong secret
C10_Witness ==
    /\ httpRequest.httpMethod = "POST"
    /\ httpRequest.body = "{comment}"
    /\ webhookSecret = "s1"
    /\ httpRequest.headers = {<<"linear-signature", Hmac("{comment}", "s2")>>}
    /\ httpResponse.statusCode = 401

\* the webhook handler was not invoked by the last request
HandlerNotInvoked ==
    \A k \in 1..Len(httpSteps) : httpSteps[k] # "handleWebhook"

\* C23: a POST without a body is answered 400, a correctly signed POST whose
\* body is not JSON is answered 400, and in neither case is the webhook
\* handler invoked.
C23_MissingOrMalformedBodyIs400 ==
    httpRequest.httpMethod = "POST" =>
        /\ ~BodyPresent(httpRequest)
             => httpResponse.statusCode = 400 /\ HandlerNotInvoked
        /\ ( /\ BodyPresent(httpRequest)
             /\ SignatureAccepted(httpRequest, webhookSecret)
             /\ httpRequest.body \notin ValidJson )
             => httpResponse.statusCode = 400 /\ HandlerNotInvoked

\* C23 witness: a correctly signed POST of a body that is not JSON
C23_Witness ==
    /\ httpRequest.httpMethod = "POST"
    /\ httpRequest.body = "not json"
    /\ webhookSecret = "s1"
    /\ httpRequest.headers = {<<"Linear-Signature", Hmac("not json", "s1")>>}
    /\ httpResponse.statusCode = 400
    /\ httpSteps = <<"extractSignature", "verifyWebhookSignature", "JSON.parse">>

\* C11: when the processing of a correctly signed, well-formed payload throws,
\* the response has status 500 and a body with an error and a message.
C11_ProcessingExceptionIs500 ==
    ( /\ httpRequest.httpMethod = "POST"
      /\ BodyPresent(httpRequest)
      /\ SignatureAccepted(httpRequest, webhookSecret)
      /\ httpRequest.body \in ValidJson
      /\ \E k \in 1..Len(httpSteps) : httpSteps[k] = "handleWebhook throws" )
        => /\ httpResponse.statusCode = 500
           /\ httpResponse.error # ""
           /\ httpResponse.message # ""

(***************************************************************************)
(* Claims about the CRUD client                                            *)
(***************************************************************************)

UpdateOps == {"updateIssue", "updateComment", "updateProject",
              "updateProjectMilestone"}
DeleteOps == {"deleteIssue", "deleteComment", "deleteRelation", "deleteProject",
              "deleteProjectMilestone"}

\* the tracker's table an operation works on
TableOf(op) ==
    CASE op \in {"updateIssue", "deleteIssue"}     -> issues
      [] op \in {"updateComment", "deleteComment"} -> comments
      [] op = "deleteRelation"                     -> relations
      [] op \in {"updateProject", "deleteProject"} -> projects
      [] OTHER                                     -> milestones

\* the tracker knows the entity the call names
Known(op, id) == id \in DOMAIN TableOf(op) /\ TableOf(op)[id].exists

\* the creator, author or lead the tracker records for the entity
RecordedOwner(op, id) ==
    CASE op \in {"updateIssue", "deleteIssue"}     -> issues[id].creatorId
      [] op \in {"updateComment", "deleteComment"} -> comments[id].userId
      [] op = "deleteRelation" ->
            IF Known("updateIssue", relations[id].issueId)
            THEN issues[relations[id].issueId].creatorId ELSE Undef
      [] op \in {"updateProject", "deleteProject"} -> projects[id].leadId
      [] OTHER ->
            IF Known("updateProject", milestones[id].projectId)
            THEN projects[milestones[id].projectId].leadId ELSE Undef

\* this step is a CRUD call that got as far as the tracker
CrudCallStep ==
    /\ nOps' = nOps + 1
    /\ lastCall'.op \in UpdateOps \cup DeleteOps
    /\ lastCall'.error \notin {ClientUnavailable, ApiKeyError}

Succeeded(call) == call.outcome = "returned" /\ call.value \notin {"false", Undef}

\* C1: with safety checks enabled, every update and every delete, of every
\* entity kind, made by a user other than the entity's recorded owner fails
\* with the ownership error unless force is passed, and succeeds with force.
C1_NonOwnerNeedsForce ==
    [][ ( /\ CrudCallStep
          /\ enableSafetyChecks
          /\ Known(lastCall'.op, lastCall'.id)
          /\ RecordedOwner(lastCall'.op, lastCall'.id) \notin {Undef, viewer} )
        => IF lastCall'.force
           THEN Succeeded(lastCall')
           ELSE /\ lastCall'.outcome = "threw"
                /\ lastCall'.error = OwnershipError
                /\ trackerVars' = trackerVars ]_vars

\* a call that safety checks gate: checks enabled, no force, the entity known
\* to the tracker but without a recorded owner
OwnerlessCallStep ==
    /\ CrudCallStep
    /\ enableSafetyChecks
    /\ ~lastCall'.force
    /\ Known(lastCall'.op, lastCall'.id)
    /\ lastCall'.op \in {"updateProjectMilestone", "deleteProjectMilestone"}
         => Known("updateProject", milestones[lastCall'.id].projectId)
    /\ RecordedOwner(lastCall'.op, lastCall'.id) = Undef

Denied(call) == call.outcome = "threw" /\ call.error = OwnershipError

\* C28 (as claimed): with safety checks enabled and without force, an update or
\* a delete of an entity without a recorded owner is denied whoever the
\* current user is, and the tracker is left as it was.
C28_OwnerlessEntityDenied ==
    [][OwnerlessCallStep => Denied(lastCall') /\ trackerVars' = trackerVars]_vars

\* C28, the part that holds: every operation that calls checkOwnership denies
C28_OwnerlessDeniedByGate ==
    [][(OwnerlessCallStep /\ lastCall'.op # "updateProjectMilestone")
          => Denied(lastCall') /\ trackerVars' = trackerVars]_vars

RelationshipFields == {"assigneeId", "stateId", "parentId", "projectId"}

\* the tracker can resolve the id given for a relationship field
Resolvable(field, id) ==
    CASE field = "assigneeId" -> id \in Users
      [] field = "stateId"    -> id \in WorkflowStates
      [] field = "parentId"   -> Known("updateIssue", id)
      [] OTHER                -> Known("updateProject", id)

\* C3: an updateIssue that goes through leaves a relationship field that is
\* absent from the payload as stored, clears one that is null, and assigns the
\* id of one that names an entity the tracker resolves.
C3_RelationshipTriState ==
    [][ ( /\ nOps' = nOps + 1
          /\ lastCall'.op = "updateIssue"
          /\ lastCall'.outcome = "returned" )
        => \A f \in RelationshipFields :
             LET given  == lastCall'.data[f]
                 before == issues[lastCall'.id][f]
                 after  == issues'[lastCall'.id][f]
             IN  /\ given = Undef => after = before
                 /\ given = Null => after = Null
                 /\ (given \notin {Undef, Null, ""} /\ Resolvable(f, given))
                       => after = given ]_vars

\* C3 witness: one update assigned a new assignee, cleared the state and the
\* project, and left the parent alone
C3_Witness ==
    /\ lastCall.op = "updateIssue"
    /\ lastCall.outcome = "returned"
    /\ lastCall.data.assigneeId = "u2" /\ issues["i1"].assigneeId = "u2"
    /\ lastCall.data.stateId = Null /\ issues["i1"].stateId = Null
    /\ lastCall.data.projectId = Null /\ issues["i1"].projectId = Null
    /\ lastCall.data.parentId = Undef /\ issues["i1"].parentId = "i2"

\* the payload names, for field f, an id the tracker cannot resolve, or ""
Unresolved(f, given) ==
    given \notin {Undef, Null} /\ (given = "" \/ ~Resolvable(f, given))

\* C29: an updateIssue whose assigneeId, stateId, parentId or projectId is an
\* id the tracker cannot resolve, or the empty string, does not fail for it:
\* the stored relationship stays as it was and the other fields of the payload
\* are applied.
C29_UnresolvableFieldIsIgnored ==
    [][ ( /\ nOps' = nOps + 1
          /\ lastCall'.op = "updateIssue"
          /\ Known("updateIssue", lastCall'.id)
          /\ \E f \in RelationshipFields : Unresolved(f, lastCall'.data[f]) )
        => /\ lastCall'.error \in {"", ClientUnavailable, OwnershipError}
           /\ lastCall'.outcome = "returned" =>
                /\ \A f \in RelationshipFields :
                     LET given  == lastCall'.data[f]
                         before == issues[lastCall'.id][f]
                         after  == issues'[lastCall'.id][f]
                     IN  /\ Unresolved(f, given) => after = before
                         /\ (truthy(given) /\ Resolvable(f, given)) => after = given
                         /\ given = Null => after = Null
                /\ lastCall'.data.title # Undef
                     => issues'[lastCall'.id].title = lastCall'.data.title ]_vars

\* C29 witness: an update with a new title and an unknown assignee went
\* through: the title is the new one, the assignee the old one
C29_Witness ==
    /\ lastCall.op = "updateIssue"
    /\ lastCall.outcome = "returned"
    /\ lastCall.data.title = "t1" /\ lastCall.data.assigneeId = "u9"
    /\ issues["i1"].title = "t1"
    /\ issues["i1"].assigneeId = "u1"

\* C22: an update of an issue or of a project with a payload that carries no
\* field changes no stored field: what a get answers after it is what it
\* answered before.
C22_EmptyUpdateChangesNothing ==
    [][ ( /\ nOps' = nOps + 1
          /\ lastCall'.op \in {"updateIssue", "updateProject"}
          /\ lastCall'.data = NoData )
        => /\ trackerVars' = trackerVars
           /\ Known(lastCall'.op, lastCall'.id)
                => /\ lookup(issues', lastCall'.id) = lookup(issues, lastCall'.id)
                   /\ lookup(projects', lastCall'.id) = lookup(projects, lastCall'.id)
          ]_vars

\* C22 witness: the owner's empty update of a project reached the tracker
C22_Witness ==
    /\ lastCall.op = "updateProject"
    /\ lastCall.id = "p1"
    /\ lastCall.data = NoData
    /\ lastCall.outcome = "returned"
    /\ lastCall.mutations = <<"updateProject">>
    /\ viewer = "u1" /\ enableSafetyChecks

\* the operations that check before they change something
CheckedOps ==
    UpdateOps \cup DeleteOps \cup {"createRelation", "createProjectMilestone"}

\* the errors of the existence checks and of the ownership check
CheckErrors == {NotFoundError, MilestoneProjectErr, OwnershipError}

\* the last call ended in a failed check: it threw the error of one, or, a
\* delete, answered false for an entity that does not exist
CheckFailed(call) ==
    \/ call.outcome = "threw" /\ call.error \in CheckErrors
    \/ call.op \in DeleteOps /\ call.outcome = "returned" /\ call.value = "false"

\* C26: when the existence check or the ownership check of an update, a
\* delete, createRelation or createProjectMilestone fails, no mutation has been
\* sent and the tracker holds what it held before.
C26_FailedCheckSendsNothing ==
    [][ ( /\ nOps' = nOps + 1
          /\ lastCall'.op \in CheckedOps
          /\ CheckFailed(lastCall') )
        => lastCall'.mutations = <<>> /\ trackerVars' = trackerVars ]_vars

\* C26 witness: createProjectMilestone was refused to a user who is not the
\* lead of the project
C26_Witness ==
    /\ lastCall.op = "createProjectMilestone"
    /\ lastCall.id = "p1"
    /\ viewer = "u2" /\ enableSafetyChecks /\ ~lastCall.force
    /\ lastCall.outcome = "threw"
    /\ lastCall.error = OwnershipError
    /\ lastCall.mutations = <<>>

CreateOps == {"createIssue", "createProject"}

\* the mutation of the last call reached the tracker
MutationSent == lastCall.mutations # <<>>

\* the ids of an optional list, as a set
ListSet(l) == IF l = NoList THEN {} ELSE Range(l[1])

\* the ids of an optional list that the tracker knows as labels
ResolvableLabels(l) == {id \in ListSet(l) : clientIssueLabel(id) # <<>>}

\* C17 (as claimed): of a list of label ids handed to a create or an update,
\* the mutation carries exactly the ids that resolve: the unresolvable ones
\* are dropped.
C17_SentIdsAreTheResolvableOnes ==
    (/\ lastCall.op \in CreateOps \cup {"updateIssue", "updateProject"}
     /\ MutationSent)
        => ListSet(lastCall.sent.labelIds) = ResolvableLabels(lastCall.data.labelIds)

\* C17, the part that holds: createIssue and updateIssue send exactly the
\* label ids that resolve, in the order supplied, and an unresolvable id
\* keeps no mutation from being sent
C17_IssueLabelsResolved ==
    (/\ lastCall.op \in {"createIssue", "updateIssue"}
     /\ MutationSent)
        => /\ ListSet(lastCall.sent.labelIds) = ResolvableLabels(lastCall.data.labelIds)
           /\ lastCall.error \in {"", GraphQLError}

\* no team was named in the last creation
NoExplicitTeam ==
    \/ lastCall.op = "createIssue" /\ ~truthy(lastCall.data.teamId)
    \/ lastCall.op = "createProject" /\ ListSet(lastCall.data.teamIds) = {}

\* the teams the last creation asked the tracker for
TeamsSent ==
    IF lastCall.op = "createIssue"
    THEN {lastCall.sent.teamId} \ {Undef}
    ELSE ListSet(lastCall.sent.teamIds)

\* C18 (as claimed): a creation of an issue or of a project that names no team
\* is sent with the first team the tracker returns.
C18_DefaultsToFirstTeam ==
    (lastCall.op \in CreateOps /\ MutationSent /\ NoExplicitTeam)
        => TeamsSent = {Teams[1]}

\* C18, the part that holds: an issue created without a teamId is sent with
\* the first team the tracker returns
C18_IssueDefaultsToFirstTeam ==
    (lastCall.op = "createIssue" /\ MutationSent /\ NoExplicitTeam)
        => lastCall.sent.teamId = Teams[1]


\* some operation on the instance has obtained the client
Acquired ==
    \E t \in Tasks : pc[t] \in {"gotClient", "userAwaitClient", "awaitViewer", "done"}

\* C30 (as claimed): an acquisition that fails fails the operation and leaves
\* no client cached, so that the next operation acquires again; once an
\* acquisition has succeeded, no operation on the instance acquires again.
C30_AcquiredOnceNeverAgain ==
    [][ /\ \A t \in Tasks : (pc[t] # "threw" /\ pc'[t] = "threw") => ~client'
        /\ Acquired => clientFetches' = clientFetches ]_vars

\* C30, for operations that run one after the other: without a cached client
\* a failed acquisition fails the operation with 'Linear client not available'
\* and leaves none cached; with a cached client no operation fails for want
\* of one and the client stays cached
C30_SequentialCaching ==
    [][ (nOps' = nOps + 1 /\ lastCall'.op # "updateProjectMilestone")
        => /\ ~client' <=> (lastCall'.outcome = "threw"
                            /\ lastCall'.error = ClientUnavailable)
           /\ client => client' ]_vars

\* C13: as long as every fetch succeeds, whatever the interleaving of the
\* operations running on one instance, the client is fetched at most once and
\* the current user is fetched at most once.
C13_FetchedAtMostOnce ==
    ~fetchFailed => clientFetches <= 1 /\ userFetches <= 1

(***************************************************************************)
(* Claims about the authentication module and the tools                    *)
(***************************************************************************)

AuthLikeTools == AuthTools \cup {"linear_auth_standalone"}

\* linear_webhook_status calls nothing: it returns a constant
MakesCall(name) == name # "linear_webhook_status"

C14_OneRetryAfterFixedDelay ==
    authCall.op = "getLinearClient"
        => /\ ~authCall.threw
           /\ authCall.checks <= 2
           /\ ~linearClient
                => ~authCall.client /\ authCall.checks = 0 /\ authCall.waited = 0
           /\ (linearClient /\ authCall.viewers[1] # "throws")
                => authCall.client /\ authCall.checks = 1 /\ authCall.waited = 0
           /\ (linearClient /\ authCall.viewers[1] = "throws")
                => /\ authCall.checks = 2
                   /\ authCall.waited = retryDelayMs
                   /\ authCall.client = (authCall.viewers[2] # "throws")

\* C14 witness: the first check failed, the re-check succeeded
C14_Witness ==
    /\ authCall.op = "getLinearClient"
    /\ linearClient
    /\ authCall.viewers[1] = "throws" /\ authCall.viewers[2] = "user"
    /\ authCall.client
    /\ authCall.checks = 2

FailureTexts == {AuthFailedText, NoUserText, AuthErrorText, ApiKeyNotSetText}

\* the credential is rejected: every read of client.viewer throws
CredentialInvalid(call) == \A k \in 1..3 : call.viewers[k] = "throws"

\* C20: the authentication check never throws; without an API key it returns a
\* failure message and calls the tracker not once; with a credential the
\* tracker rejects it returns a failure message too.
C20_AuthCheckReturnsFailureText ==
    authCall.op \in AuthLikeTools \cup {"testLinearAuth"}
        => /\ ~authCall.threw
           /\ authCall.op \in AuthLikeTools
                => toolCall.completion = "returned" /\ toolCall.form = "text"
           /\ ~linearClient
                => authCall.text \in FailureTexts /\ authCall.checks = 0
           /\ CredentialInvalid(authCall) => authCall.text \in FailureTexts

\* C20 witness: linear_auth ran without an API key
C20_Witness ==
    /\ authCall.op = "linear_auth"
    /\ ~linearClient
    /\ authCall.text = AuthFailedText
    /\ toolCall.completion = "returned"

\* C19: the detector keeps nothing from one call to the next: whatever lastIndex
\* earlier calls left in the shared pattern, detectReferences(text) and
\* hasOpenCodeReference(text) return what they return on a fresh pattern.
C19_ResultsIndependentOfEarlierCalls ==
    /\ "detectReferences" \in computed
         => references = detectReferences(comment, 0).refs
    /\ "hasOpenCodeReference" \in computed
         => hasReference = hasOpenCodeReference(comment, 0).result

\* C19 witness: detectReferences found a reference in a text although an earlier
\* call on another text had left the pattern's lastIndex away from 0
C19_Witness ==
    /\ computed = {"detectReferences"}
    /\ priorIndex # 0
    /\ Len(references) >= 1

====
